---------------------------- MODULE Spec2Model ----------------------------
(***************************************************************************)
(* State-machine model of the browser front ends of the repository:        *)
(*   - the chat widget (chatbot/static/js/app.js),                         *)
(*   - the identifier-lookup views ProtocolSearch.jsx and AppealSearch.jsx,*)
(*   - the appeal analysis view AppealAnalysis.jsx.                        *)
(* The chat widget and the React application each have a specification     *)
(* (SpecChat, SpecMvp); the variables of the other stay at their initial   *)
(* values.                                                                 *)
(*                                                                         *)
(* Text is kept run-length encoded: a text is a sequence of runs           *)
(* [ch |-> c, n |-> k] (k copies of character c, adjacent runs differ),    *)
(* so that trim() and .length are computed as the code computes them.      *)
(***************************************************************************)
EXTENDS Integers, Sequences, FiniteSets, TLC

VARIABLES
    \* ---- chat widget: program state (app.js) ----
    history,          \* state.history; each turn also carries the tag req (see Turn)
    isLoading,        \* state.isLoading
    inputValue,       \* elements.messageInput.value
    controlsDisabled, \* elements.sendButton.disabled = elements.messageInput.disabled
    typingDisplay,    \* elements.typing.style.display = 'flex'
    typingTimeout,    \* the 500 ms timer of handleFormSubmit is pending
    lastMessage,      \* the message element most recently appended to elements.messages
    sourcesActive,    \* elements.sourcesContainer has class 'active'
    sourcesList,      \* the cards in elements.sourcesList
    statsText,        \* elements.stats.textContent
    storage,          \* localStorage['chatcgu_history'] (NoItem, or Item of a token sequence)
    chatPc,           \* position of init(): "start", "stats", "ready"
    inFlight,         \* the /chat requests issued and not yet settled
    \* ---- chat widget: instrumentation ----
    nreq,             \* number of accepted submissions so far
    nfail,            \* number of /chat requests that ended without an answer
    nsavefail,        \* number of localStorage.setItem calls that threw
    appendLog,        \* loaded history followed by every turn passed to addToHistory
    startedEmpty,     \* loadHistory left state.history empty
    lastOutcome,      \* how the most recent /chat request ended
    \* ---- React application (mvp/frontend): App ----
    currentPage,      \* App: currentPage
    \* ---- ProtocolSearch / AppealSearch (the mounted one of the two) ----
    identifier,       \* protocolId / appealId
    topK,             \* topK
    results,          \* results
    original,         \* originalRequest / originalAppeal
    loading,          \* loading
    error,            \* error
    \* ---- AppealAnalysis ----
    formData,         \* formData: text, top_k, instance_filter, min_score
    instances,        \* instances
    analysisResults,  \* results
    analysisLoading,  \* loading
    includeDraft,     \* includeDraft
    errors,           \* errors
    \* ---- React application: requests and instrumentation ----
    pending,          \* API requests issued by the mounted component, not yet settled
    lastEvent,        \* the last submit, settle or navigation: its outcome and its toast
    \* ---- retrieval core (spec sections 4.1 to 4.5): one call of one operation ----
    coreOp,           \* the operation called and how far it is: [name, pc]
    coreIn,           \* its arguments
    coreOut,          \* what it has produced so far
    \* ---- React application: what the mounted component renders of its records ----
    shownIn,          \* the component that renders them
    shown,            \* the records it renders: decision and response / details text
    expandedResponses,\* expandedResponses: the keys whose text is expanded
    \* ---- Dashboard ----
    healthData,       \* healthData
    appInfo,          \* appInfo
    minutaStatus,     \* minutaStatus
    dashLoading,      \* loading
    dashRequests,     \* the three requests of loadDashboardData: pending, or settled
    dashToast         \* the toast raised by loadDashboardData

chatVars == <<history, isLoading, inputValue, controlsDisabled, typingDisplay,
              typingTimeout, lastMessage, sourcesActive, sourcesList, statsText,
              storage, chatPc, inFlight, nreq, nfail, nsavefail, appendLog,
              startedEmpty, lastOutcome>>

searchVars == <<identifier, topK, results, original, loading, error>>

analysisVars == <<formData, instances, analysisResults, analysisLoading,
                  includeDraft, errors>>

mvpVars == <<currentPage, searchVars, analysisVars, pending, lastEvent>>

coreVars == <<coreOp, coreIn, coreOut>>

cardVars == <<shownIn, shown, expandedResponses>>

dashVars == <<healthData, appInfo, minutaStatus, dashLoading, dashRequests, dashToast>>

viewVars == <<cardVars, dashVars>>

vars == <<chatVars, mvpVars, coreVars, viewVars>>

-----------------------------------------------------------------------------
(* Bounds of the model *)

MaxSubmits == 11

MaxFailures == 1

MaxSaveFailures == 1

MaxLiveSubmits == 1

\* Outcome Aggregator: most hits of one decision label, longest freely ordered input
MaxLabelCount == 4

MaxOrdered == 3

\* Vector Index: most records in an index, highest score (in steps), largest topK
MaxIndex == 3

MaxScore == 2

MaxTopK == 3

\* Intent Router: longest query, in tokens
MaxTokens == 4

\* Cross-Reference Joiner: most candidate Requests of the first phase
MaxCandidates == 3

-----------------------------------------------------------------------------
(* Text *)

SP == " "

Run(c, k) == [ch |-> c, n |-> k]

RECURSIVE TextLen(_)
TextLen(t) == IF t = <<>> THEN 0 ELSE Head(t).n + TextLen(Tail(t))

RECURSIVE TrimStart(_)
TrimStart(t) ==
    IF t = <<>> THEN <<>>
    ELSE IF Head(t).ch = SP THEN TrimStart(Tail(t)) ELSE t

RECURSIVE TrimEnd(_)
TrimEnd(t) ==
    IF t = <<>> THEN <<>>
    ELSE IF t[Len(t)].ch = SP THEN TrimEnd(SubSeq(t, 1, Len(t) - 1)) ELSE t

\* String.prototype.trim
trim(t) == TrimEnd(TrimStart(t))

-----------------------------------------------------------------------------
(* Chat widget: configuration and helpers *)

HISTORY_LIMIT == 10

\* localStorage.getItem: null when the key was never written, else the stored text
NoItem == [present |-> FALSE, text |-> <<>>]

Item(text) == [present |-> TRUE, text |-> text]

\* Array.prototype.slice(-k) for k > 0
SliceLast(s, k) == IF Len(s) <= k THEN s ELSE SubSeq(s, Len(s) - k + 1, Len(s))

\* A history entry: the {role, content} object of the code, tagged with the number
\* req of the handleFormSubmit call that appended it (0: loaded from storage).
Turn(role, content, req) == [role |-> role, content |-> content, req |-> req]

\* The {role, content} objects as the program sees them (the tag removed).
TurnsOf(h) == [i \in DOMAIN h |-> [role |-> h[i].role, content |-> h[i].content]]

\* JSON.stringify of an array of {role, content} objects, as a token sequence.
RECURSIVE StringifyTurns(_)
StringifyTurns(ts) ==
    IF ts = <<>> THEN <<>>
    ELSE << [t |-> "{"], [t |-> "role", r |-> Head(ts).role],
            [t |-> "content", v |-> Head(ts).content], [t |-> "}"] >>
         \o StringifyTurns(Tail(ts))

JSONstringify(ts) == << [t |-> "["] >> \o StringifyTurns(ts) \o << [t |-> "]"] >>

\* The outcome of a parse: the value, or a thrown SyntaxError
Parsed(v) == [ok |-> TRUE, value |-> v]

SyntaxError == [ok |-> FALSE, value |-> <<>>]

RECURSIVE ParseTurns(_)
ParseTurns(toks) ==
    IF toks = <<>> THEN Parsed(<<>>)
    ELSE IF Len(toks) >= 4 /\ toks[1].t = "{" /\ toks[2].t = "role"
            /\ toks[3].t = "content" /\ toks[4].t = "}"
         THEN LET rest == ParseTurns(SubSeq(toks, 5, Len(toks)))
              IN IF ~rest.ok THEN SyntaxError
                 ELSE Parsed(<< [role |-> toks[2].r, content |-> toks[3].v] >>
                             \o rest.value)
         ELSE SyntaxError

\* JSON.parse of a stored array of turns
JSONparse(toks) ==
    IF Len(toks) >= 2 /\ toks[1].t = "[" /\ toks[Len(toks)].t = "]"
    THEN ParseTurns(SubSeq(toks, 2, Len(toks) - 1))
    ELSE SyntaxError

-----------------------------------------------------------------------------
(* Chat widget: inputs *)

\* What the user can have typed in the message box
TypedMessages ==
    { <<>>, << Run(SP, 2) >>, << Run("a", 3) >>, << Run(SP, 1), Run("a", 3), Run(SP, 1) >> }

\* data-question of the example buttons
ExampleQuestions == { << Run("a", 3) >> }

\* The answer text of a /chat response that carries one
AnswerText == << Run("r", 4) >>

\* The sources array of a /chat response (empty: absent or [])
SourceLists == { <<>>, << "s1" >>, << "s2" >> }

\* Number of turns a previous session left in localStorage
PriorTurns == 18

PriorHistory ==
    [i \in 1..PriorTurns |->
        [role |-> IF i % 2 = 1 THEN "user" ELSE "assistant",
         content |-> IF i % 2 = 1 THEN << Run("a", 3) >> ELSE AnswerText]]

\* What localStorage can hold when the page loads: nothing, text that is not
\* JSON, or the history a previous session saved
InitialStorage ==
    { NoItem, Item(<< [t |-> "["] >>), Item(JSONstringify(PriorHistory)) }

\* How a /chat request can fail: an Error thrown by sendMessageToAPI (http, whose
\* detail may contain the word 'timeout'), or a rejected fetch / unreadable body
ChatErrors ==
    { [http |-> TRUE, timeoutWord |-> FALSE], [http |-> TRUE, timeoutWord |-> TRUE],
      [http |-> FALSE, timeoutWord |-> FALSE] }

\* Outcomes of GET /stats
StatsOutcomes == {"total", "nototal", "notok", "threw"}

-----------------------------------------------------------------------------
(* Chat widget: functions of app.js *)

Message(kind, content) == [kind |-> kind, content |-> content]

NoMessage == Message("none", <<>>)

\* addMessage(content, isUser, isError): the element appended to elements.messages
addMessage(content, isUser, isError) ==
    Message(IF isUser THEN "user" ELSE IF isError THEN "error" ELSE "bot", content)

\* getErrorMessage(error): which of the three texts is shown
getErrorMessage(err) ==
    IF err.timeoutWord THEN << Run("T", 1) >>
    ELSE IF err.http THEN << Run("H", 1) >>
    ELSE << Run("U", 1) >>

NoAnswerText == << Run("D", 1) >>

\* addToHistory keeps at most this many turns
HistoryCap == HISTORY_LIMIT * 2

\* A plausible slip: unshift instead of push
PushBoundedFront(h, turn) ==
    IF Len(h) + 1 > HistoryCap THEN SliceLast(<<turn>> \o h, HistoryCap)
    ELSE <<turn>> \o h

\* A plausible slip: slice(0, n) instead of slice(-n)
PushBoundedKeepOldest(h, turn) ==
    IF Len(h) + 1 > HistoryCap THEN SubSeq(Append(h, turn), 1, HistoryCap)
    ELSE Append(h, turn)

\* state.history after push and the bounding slice of addToHistory
PushBounded(h, turn) ==
    IF Len(h) + 1 > HistoryCap THEN SliceLast(Append(h, turn), HistoryCap)
    ELSE Append(h, turn)

\* A plausible slip: the history saved before the new turn is pushed
saveHistoryStale(h) ==
    \/ /\ storage' = Item(JSONstringify(TurnsOf(history)))
       /\ UNCHANGED nsavefail
    \/ /\ nsavefail < MaxSaveFailures
       /\ nsavefail' = nsavefail + 1
       /\ UNCHANGED storage

\* saveHistory(): setItem succeeds, or throws (quota) and the error is swallowed
saveHistory(h) ==
    \/ /\ storage' = Item(JSONstringify(TurnsOf(h)))
       /\ UNCHANGED nsavefail
    \/ /\ nsavefail < MaxSaveFailures
       /\ nsavefail' = nsavefail + 1
       /\ UNCHANGED storage

\* addToHistory(role, content)
addToHistory(role, content, req) ==
    /\ history' = PushBounded(history, Turn(role, content, req))
    /\ appendLog' = Append(appendLog, Turn(role, content, req))
    /\ saveHistory(history')

\* A plausible slip: the first HISTORY_LIMIT turns instead of the last
RequestHistoryOldest(h) == SubSeq(h, 1, IF Len(h) < HISTORY_LIMIT THEN Len(h) ELSE HISTORY_LIMIT)

\* The history field of the /chat request body: history.slice(-HISTORY_LIMIT)
\* (the turns keep their tags; the body carries TurnsOf of them)
RequestHistory(h) == SliceLast(h, HISTORY_LIMIT)

\* A plausible slip: the isLoading test left out
AcceptsWhileLoading(message) == message # <<>>

\* The condition under which handleFormSubmit goes on (line 203 negated)
Accepts(message) == message # <<>> /\ ~isLoading

-----------------------------------------------------------------------------
(* Chat widget: initial state and actions *)

ChatInit ==
    /\ history = <<>>
    /\ isLoading = FALSE
    /\ inputValue = <<>>
    /\ controlsDisabled = FALSE
    /\ typingDisplay = FALSE
    /\ typingTimeout = FALSE
    /\ lastMessage = NoMessage
    /\ sourcesActive = FALSE
    /\ sourcesList = <<>>
    /\ statsText = "initial"
    /\ storage \in InitialStorage
    /\ chatPc = "start"
    /\ inFlight = {}
    /\ nreq = 0
    /\ nfail = 0
    /\ nsavefail = 0
    /\ appendLog = <<>>
    /\ startedEmpty = TRUE
    /\ lastOutcome = [kind |-> "none", sources |-> <<>>, req |-> 0]

\* loadHistory(): the value of state.history afterwards
loadHistory ==
    IF storage.present /\ storage.text # <<>>
    THEN LET p == JSONparse(storage.text)
         IN IF p.ok THEN [i \in DOMAIN p.value |->
                             Turn(p.value[i].role, p.value[i].content, 0)]
            ELSE <<>>
    ELSE history

\* DOMContentLoaded: init() runs loadHistory and starts GET /stats
DOMContentLoaded ==
    /\ chatPc = "start"
    /\ history' = loadHistory
    /\ appendLog' = history'
    /\ startedEmpty' = (history' = <<>>)
    /\ chatPc' = "stats"
    /\ UNCHANGED <<isLoading, inputValue, controlsDisabled, typingDisplay,
                   typingTimeout, lastMessage, sourcesActive, sourcesList, statsText,
                   storage, inFlight, nreq, nfail, nsavefail, lastOutcome>>
    /\ UNCHANGED <<mvpVars, coreVars, viewVars>>

\* A plausible slip: getStats without its try / catch, so that a failed fetch
\* rejects init() before setupEventListeners
StatsSettledUncaught(outcome) ==
    /\ chatPc = "stats"
    /\ statsText' = CASE outcome = "total" -> "count"
                      [] OTHER -> statsText
    /\ chatPc' = IF outcome = "threw" THEN "failed" ELSE "ready"
    /\ UNCHANGED <<history, isLoading, inputValue, controlsDisabled, typingDisplay,
                   typingTimeout, lastMessage, sourcesActive, sourcesList, storage,
                   inFlight, nreq, nfail, nsavefail, appendLog, startedEmpty,
                   lastOutcome>>
    /\ UNCHANGED <<mvpVars, coreVars, viewVars>>

\* getStats() settles, then init() goes on to setupEventListeners
StatsSettled(outcome) ==
    /\ chatPc = "stats"
    /\ statsText' = CASE outcome = "total" -> "count"
                      [] outcome = "threw" -> "unavailable"
                      [] OTHER -> statsText
    /\ chatPc' = "ready"
    /\ UNCHANGED <<history, isLoading, inputValue, controlsDisabled, typingDisplay,
                   typingTimeout, lastMessage, sourcesActive, sourcesList, storage,
                   inFlight, nreq, nfail, nsavefail, appendLog, startedEmpty,
                   lastOutcome>>
    /\ UNCHANGED <<mvpVars, coreVars, viewVars>>

\* The user edits the message box (a disabled input takes no typing)
TypeMessage(text) ==
    /\ ~controlsDisabled
    /\ inputValue' = text
    /\ UNCHANGED <<history, isLoading, controlsDisabled, typingDisplay,
                   typingTimeout, lastMessage, sourcesActive, sourcesList, statsText,
                   storage, chatPc, inFlight, nreq, nfail, nsavefail, appendLog,
                   startedEmpty, lastOutcome>>
    /\ UNCHANGED <<mvpVars, coreVars, viewVars>>

\* handleFormSubmit() up to its await, on the message box holding `value`
handleFormSubmit(value) ==
    LET message == trim(value)
    IN IF ~Accepts(message)
       THEN /\ inputValue' = value
            /\ UNCHANGED <<history, isLoading, controlsDisabled, typingDisplay,
                           typingTimeout, lastMessage, sourcesActive, sourcesList,
                           statsText, storage, chatPc, inFlight, nreq, nfail,
                           nsavefail, appendLog, startedEmpty, lastOutcome>>
       ELSE /\ nreq < MaxSubmits
            /\ nreq' = nreq + 1
            /\ isLoading' = TRUE
            /\ controlsDisabled' = TRUE
            /\ lastMessage' = addMessage(message, TRUE, FALSE)
            /\ addToHistory("user", message, nreq')
            /\ inputValue' = <<>>
            /\ typingTimeout' = TRUE
            /\ inFlight' = inFlight \cup
                   { [req |-> nreq', message |-> message,
                      history |-> RequestHistory(history')] }
            /\ lastOutcome' = [kind |-> "pending", sources |-> <<>>, req |-> nreq']
            /\ UNCHANGED <<typingDisplay, sourcesActive, sourcesList, statsText,
                           chatPc, nfail, startedEmpty>>

\* 'submit' listener of the form
FormSubmit ==
    /\ chatPc = "ready"
    /\ handleFormSubmit(inputValue)
    /\ UNCHANGED <<mvpVars, coreVars, viewVars>>

\* 'keydown' listener: Ctrl/Cmd+Enter
CtrlEnter ==
    /\ chatPc = "ready"
    /\ handleFormSubmit(inputValue)
    /\ UNCHANGED <<mvpVars, coreVars, viewVars>>

\* 'click' listener of an example button: fills the box, then submits
ExampleClick(question) ==
    /\ chatPc = "ready"
    /\ handleFormSubmit(question)
    /\ UNCHANGED <<mvpVars, coreVars, viewVars>>

\* The 500 ms timer fires: showTyping()
TypingTimerFires ==
    /\ typingTimeout
    /\ typingTimeout' = FALSE
    /\ typingDisplay' = TRUE
    /\ UNCHANGED <<history, isLoading, inputValue, controlsDisabled, lastMessage,
                   sourcesActive, sourcesList, statsText, storage, chatPc, inFlight,
                   nreq, nfail, nsavefail, appendLog, startedEmpty, lastOutcome>>
    /\ UNCHANGED <<mvpVars, coreVars, viewVars>>

\* renderSources(sources)
renderSources(sources) ==
    IF sources = <<>>
    THEN sourcesActive' = FALSE /\ UNCHANGED sourcesList
    ELSE sourcesList' = sources /\ sourcesActive' = TRUE

\* A plausible slip: clearTimeout left out of the finally block
FinallyKeepsTimer(r) ==
    /\ typingTimeout' = typingTimeout
    /\ typingDisplay' = FALSE
    /\ isLoading' = FALSE
    /\ controlsDisabled' = FALSE
    /\ inFlight' = inFlight \ {r}

\* The finally block of handleFormSubmit
Finally(r) ==
    /\ typingTimeout' = FALSE
    /\ typingDisplay' = FALSE
    /\ isLoading' = FALSE
    /\ controlsDisabled' = FALSE
    /\ inFlight' = inFlight \ {r}

\* The /chat response of request r carries an answer
ResponseAnswer(r, sources) ==
    /\ r \in inFlight
    /\ lastMessage' = addMessage(AnswerText, FALSE, FALSE)
    /\ addToHistory("assistant", AnswerText, r.req)
    /\ renderSources(sources)
    /\ Finally(r)
    /\ lastOutcome' = [kind |-> "answer", sources |-> sources, req |-> r.req]
    /\ UNCHANGED <<inputValue, statsText, chatPc, nreq, nfail, startedEmpty>>
    /\ UNCHANGED <<mvpVars, coreVars, viewVars>>

\* A plausible slip: renderSources called only in the answer branch
ResponseNoAnswerSkipSources(r, sources) ==
    /\ r \in inFlight
    /\ nfail < MaxFailures
    /\ nfail' = nfail + 1
    /\ lastMessage' = addMessage(NoAnswerText, FALSE, TRUE)
    /\ Finally(r)
    /\ lastOutcome' = [kind |-> "noanswer", sources |-> sources, req |-> r.req]
    /\ UNCHANGED <<history, inputValue, sourcesActive, sourcesList, statsText,
                   storage, chatPc, nreq, nsavefail, appendLog, startedEmpty>>
    /\ UNCHANGED <<mvpVars, coreVars, viewVars>>

\* The /chat response of request r is OK but carries no answer text
ResponseNoAnswer(r, sources) ==
    /\ r \in inFlight
    /\ nfail < MaxFailures
    /\ nfail' = nfail + 1
    /\ lastMessage' = addMessage(NoAnswerText, FALSE, TRUE)
    /\ renderSources(sources)
    /\ Finally(r)
    /\ lastOutcome' = [kind |-> "noanswer", sources |-> sources, req |-> r.req]
    /\ UNCHANGED <<history, inputValue, statsText, storage, chatPc, nreq,
                   nsavefail, appendLog, startedEmpty>>
    /\ UNCHANGED <<mvpVars, coreVars, viewVars>>

\* A plausible slip: the error text recorded as the assistant's turn
ResponseErrorRecorded(r, err) ==
    /\ r \in inFlight
    /\ nfail < MaxFailures
    /\ nfail' = nfail + 1
    /\ lastMessage' = addMessage(getErrorMessage(err), FALSE, TRUE)
    /\ addToHistory("assistant", getErrorMessage(err), r.req)
    /\ Finally(r)
    /\ lastOutcome' = [kind |-> "error", sources |-> <<>>, req |-> r.req]
    /\ UNCHANGED <<inputValue, sourcesActive, sourcesList, statsText,
                   chatPc, nreq, startedEmpty>>
    /\ UNCHANGED <<mvpVars, coreVars, viewVars>>

\* sendMessageToAPI throws for request r: the catch block
ResponseError(r, err) ==
    /\ r \in inFlight
    /\ nfail < MaxFailures
    /\ nfail' = nfail + 1
    /\ lastMessage' = addMessage(getErrorMessage(err), FALSE, TRUE)
    /\ Finally(r)
    /\ lastOutcome' = [kind |-> "error", sources |-> <<>>, req |-> r.req]
    /\ UNCHANGED <<history, inputValue, sourcesActive, sourcesList, statsText,
                   storage, chatPc, nreq, nsavefail, appendLog, startedEmpty>>
    /\ UNCHANGED <<mvpVars, coreVars, viewVars>>

\* Click on the sources toggle, or Escape
HideSources ==
    /\ chatPc = "ready"
    /\ sourcesActive
    /\ sourcesActive' = FALSE
    /\ UNCHANGED <<history, isLoading, inputValue, controlsDisabled, typingDisplay,
                   typingTimeout, lastMessage, sourcesList, statsText, storage,
                   chatPc, inFlight, nreq, nfail, nsavefail, appendLog,
                   startedEmpty, lastOutcome>>
    /\ UNCHANGED <<mvpVars, coreVars, viewVars>>

ChatNext ==
    \/ DOMContentLoaded
    \/ \E o \in StatsOutcomes : StatsSettled(o)
    \/ \E t \in TypedMessages : TypeMessage(t)
    \/ FormSubmit
    \/ CtrlEnter
    \/ \E q \in ExampleQuestions : ExampleClick(q)
    \/ TypingTimerFires
    \/ \E r \in inFlight, s \in SourceLists : ResponseAnswer(r, s)
    \/ \E r \in inFlight, s \in SourceLists : ResponseNoAnswer(r, s)
    \/ \E r \in inFlight, e \in ChatErrors : ResponseError(r, e)
    \/ HideSources

-----------------------------------------------------------------------------
(* Chat widget: properties *)

\* C1: at most one /chat request is in flight at any time, and a step taken while
\* state.isLoading is true issues no request and changes state.history only by
\* settling the request in flight.
C1_OneRequestInFlight ==
    /\ [](Cardinality(inFlight) <= 1)
    /\ [][isLoading =>
            /\ inFlight' \subseteq inFlight
            /\ (history' # history => inFlight' # inFlight)]_chatVars

\* C1 witness: a request is in flight and an example click has been turned away
\* (the box holds the example question, which an accepted submission clears).
C1_Witness ==
    /\ isLoading
    /\ Cardinality(inFlight) = 1
    /\ inputValue \in ExampleQuestions
    /\ nreq >= 2

\* C2 as stated: from an empty history, every assistant turn is immediately
\* preceded by the user turn of the same submission.
C2_Original ==
    startedEmpty =>
        \A i \in 1..Len(history) :
            history[i].role = "assistant" =>
                /\ i > 1
                /\ history[i - 1].role = "user"
                /\ history[i - 1].req = history[i].req

\* C2 amended: from an empty history, every assistant turn other than the first
\* element of state.history is immediately preceded by the user turn of the same
\* submission, the turns of different submissions never interleave, and an
\* assistant turn stands first only after eviction has removed its user turn.
C2_AssistantFollowsUser ==
    startedEmpty =>
        /\ \A i \in 2..Len(history) :
              history[i].role = "assistant" =>
                  /\ history[i - 1].role = "user"
                  /\ history[i - 1].req = history[i].req
        /\ \A i \in 1..Len(history), j \in 1..Len(history) :
              i < j => history[i].req <= history[j].req
        /\ (Len(history) > 0 /\ history[1].role = "assistant")
              => Len(appendLog) > HistoryCap

\* C2 witness: eviction has left an assistant turn first, and later pairs follow.
C2_Witness ==
    /\ startedEmpty
    /\ Len(history) = HistoryCap
    /\ history[1].role = "assistant"
    /\ history[HistoryCap].role = "assistant"

\* C3: state.history never holds more than 2 * HISTORY_LIMIT turns and is exactly
\* the most recently appended turns, in append order.
C3_HistoryIsRecentSuffix ==
    LET n == Len(appendLog)
        k == IF n < 2 * HISTORY_LIMIT THEN n ELSE 2 * HISTORY_LIMIT
    IN /\ Len(history) <= 2 * HISTORY_LIMIT
       /\ Len(history) = k
       /\ \A i \in 1..k : history[i] = appendLog[n - k + i]

\* C3 witness: more turns were appended than the history keeps.
C3_Witness ==
    /\ Len(appendLog) > 2 * HISTORY_LIMIT + 1
    /\ Len(history) = 2 * HISTORY_LIMIT
    /\ nreq >= 2

C9_SourcesWithoutAnswer ==
    [][(/\ lastOutcome' # lastOutcome
        /\ lastOutcome'.kind = "noanswer"
        /\ lastOutcome'.sources # <<>>)
       => /\ sourcesActive'
          /\ sourcesList' = lastOutcome'.sources
          /\ lastMessage' = Message("error", NoAnswerText)
          /\ history' = history]_chatVars

\* C9 witness: the last response had sources and no answer, and they are shown.
C9_Witness ==
    /\ lastOutcome.kind = "noanswer"
    /\ lastOutcome.sources # <<>>
    /\ sourcesActive
    /\ sourcesList = lastOutcome.sources
    /\ lastMessage.kind = "error"

-----------------------------------------------------------------------------
(* React application: values *)

\* parseInt / parseFloat of what was typed in a number input: NaN or a number.
\* A typed value is [num |-> BOOLEAN, n |-> Int]; fractions are kept in tenths.
NaN == [nan |-> TRUE, n |-> 0]

Num(k) == [nan |-> FALSE, n |-> k]

parseNumber(typed) == IF typed.num THEN Num(typed.n) ELSE NaN

\* JavaScript x || d on a number: NaN and 0 are falsy
OrDefault(x, d) == IF x.nan \/ x.n = 0 THEN d ELSE x.n

\* Constraint validation of <input type="number" min max>, which Input passes on
\* to the DOM element: the form is not submitted while the value is out of range
NumberInputValid(value, min, max) == min <= value /\ value <= max

\* No record (null) and a record of the index
NoRecord == [present |-> FALSE, id |-> ""]

Record(id) == [present |-> TRUE, id |-> id]

\* error state of the search views: '' or one of the three texts
NoError == [kind |-> "none", id |-> <<>>]

RequiredError == [kind |-> "required", id |-> <<>>]

NotFoundError(id) == [kind |-> "notfound", id |-> id]

GenericError == [kind |-> "generic", id |-> <<>>]

\* The text of an error state as displayed (first character, quoted identifier)
ErrorText(e) ==
    CASE e.kind = "none" -> <<>>
      [] e.kind = "required" -> << Run("P", 1), Run("o", 1) >>
      [] e.kind = "notfound" -> << Run("P", 1), Run("'", 1) >> \o e.id \o << Run("'", 1) >>
      [] e.kind = "generic" -> << Run("E", 1) >>

\* An API request as issued: which page issued it and the
\* parameters it carries (those the endpoint does not take are left at 0)
Request(page, id, typed, top_k, min_score, textLen, blank, draft) ==
    [page |-> page, id |-> id, typed |-> typed, top_k |-> top_k,
     min_score |-> min_score, textLen |-> textLen, blank |-> blank, draft |-> draft]

\* What the last handler did: kind (submit, reject, settle, instances, navigate),
\* how the request ended, whether a draft was asked for, and the toast raised
Event(kind, outcome, draft, toast) ==
    [kind |-> kind, outcome |-> outcome, draft |-> draft, toast |-> toast]

-----------------------------------------------------------------------------
(* ProtocolSearch / AppealSearch: inputs *)

SearchPages == {"protocol", "appeal"}

DefaultTopK == 5

\* What the user can have typed in the identifier box
TypedIdentifiers ==
    { <<>>, << Run(SP, 1) >>, << Run("6", 17) >>, << Run("6", 17), Run(SP, 1) >> }

\* What the user can have typed in the 'Quantidade de Similares' box
TypedTopK ==
    { [num |-> FALSE, n |-> 0], [num |-> TRUE, n |-> 0], [num |-> TRUE, n |-> 1],
      [num |-> TRUE, n |-> 20], [num |-> TRUE, n |-> 21], [num |-> TRUE, n |-> -1] }

\* Bodies of a 200 response of the lookup endpoints: null, or an object whose
\* original record and similar-records list may each be missing
LookupBodies ==
    { b \in [isNull : BOOLEAN, original : {NoRecord, Record("orig")},
             hasSimilar : BOOLEAN,
             similar : { <<>>, << Record("r1") >>, << Record("r1"), Record("r2") >> }] :
        /\ b.isNull => (b.original = NoRecord /\ ~b.hasSimilar)
        /\ ~b.hasSimilar => b.similar = <<>> }

\* How a lookup request can fail: an HTTP status, or no response at all (0)
LookupFailures == {404, 500, 503, 0}

-----------------------------------------------------------------------------
(* ProtocolSearch / AppealSearch: handlers *)

\* Button disabled={loading || !protocolId.trim()}: no submit event while disabled
SubmitDisabled == loading \/ trim(identifier) = <<>>

\* The form fires 'submit' only when the button is enabled and the number input valid
SearchSubmitEnabled ==
    /\ currentPage \in SearchPages
    /\ ~SubmitDisabled
    /\ NumberInputValid(topK, 1, 20)

\* handleProtocolChange / handleAppealIdChange
handleIdentifierChange(value) ==
    /\ currentPage \in SearchPages
    /\ identifier' = value
    /\ error' = IF error.kind # "none" THEN NoError ELSE error
    /\ UNCHANGED <<currentPage, topK, results, original, loading, analysisVars,
                   pending, lastEvent>>
    /\ UNCHANGED <<chatVars, coreVars, viewVars>>

\* onChange of the number input: setTopK(parseInt(e.target.value) || 5)
handleTopKChange(typed) ==
    /\ currentPage \in SearchPages
    /\ topK' = OrDefault(parseNumber(typed), DefaultTopK)
    /\ UNCHANGED <<currentPage, identifier, results, original, loading, error,
                   analysisVars, pending, lastEvent>>
    /\ UNCHANGED <<chatVars, coreVars, viewVars>>

\* A plausible slip: the displayed record is not cleared when a search starts
SearchResetKeepsRecord ==
    /\ loading' = TRUE
    /\ results' = <<>>
    /\ original' = original
    /\ error' = NoError

\* handleSearch lines 27-30: the state set before the request is issued
SearchReset ==
    /\ loading' = TRUE
    /\ results' = <<>>
    /\ original' = NoRecord
    /\ error' = NoError

\* handleSearch up to its await
handleSearch ==
    /\ SearchSubmitEnabled
    /\ IF trim(identifier) = <<>>
       THEN /\ error' = RequiredError
            /\ lastEvent' = Event("reject", "none", FALSE, "none")
            /\ UNCHANGED <<results, original, loading, pending>>
       ELSE /\ SearchReset
            /\ pending' = pending \cup
                   { Request(currentPage, trim(identifier), identifier, topK,
                             0, 0, FALSE, FALSE) }
            /\ lastEvent' = Event("submit", "none", FALSE, "none")
    /\ UNCHANGED <<currentPage, identifier, topK, analysisVars>>
    /\ UNCHANGED <<chatVars, coreVars, viewVars>>

\* A plausible slip: the 404 test left out of the catch block
LookupFailureErrorGeneric(status, typed) == GenericError

\* handleSearch catch block: the error state for a failed request
LookupFailureError(status, typed) ==
    IF status = 404 THEN NotFoundError(typed) ELSE GenericError

\* handleSearch catch block: the toast
LookupFailureToast(status) == IF status = 404 THEN "not found" ELSE "failed"

\* The lookup request r is answered 200 with body: the rest of the try block
LookupResponse(r, body) ==
    /\ r \in pending
    /\ r.page \in SearchPages
    /\ IF body.isNull \/ ~body.hasSimilar
       THEN /\ error' = LookupFailureError(0, r.typed)
            /\ lastEvent' = Event("settle", "malformed", FALSE, LookupFailureToast(0))
            /\ UNCHANGED <<results, original>>
       ELSE /\ original' = body.original
            /\ results' = body.similar
            /\ lastEvent' = Event("settle", "ok", FALSE,
                                  IF Len(body.similar) = 0 THEN "none found" ELSE "found")
            /\ UNCHANGED error
    /\ loading' = FALSE
    /\ pending' = pending \ {r}
    /\ UNCHANGED <<currentPage, identifier, topK, analysisVars>>
    /\ UNCHANGED <<chatVars, coreVars, viewVars>>

\* The lookup request r fails with status (0: no response): catch and finally
LookupFailure(r, status) ==
    /\ r \in pending
    /\ r.page \in SearchPages
    /\ error' = LookupFailureError(status, r.typed)
    /\ lastEvent' = Event("settle", IF status = 404 THEN "404" ELSE "failed", FALSE,
                          LookupFailureToast(status))
    /\ loading' = FALSE
    /\ pending' = pending \ {r}
    /\ UNCHANGED <<currentPage, identifier, topK, results, original, analysisVars>>
    /\ UNCHANGED <<chatVars, coreVars, viewVars>>

\* 'Tentar novamente' on the error card
TryAgain ==
    /\ currentPage \in SearchPages
    /\ error.kind # "none"
    /\ ~loading
    /\ error' = NoError
    /\ identifier' = <<>>
    /\ results' = <<>>
    /\ UNCHANGED <<currentPage, topK, original, loading, analysisVars, pending,
                   lastEvent>>
    /\ UNCHANGED <<chatVars, coreVars, viewVars>>

-----------------------------------------------------------------------------
(* AppealAnalysis: inputs *)

\* What the user can have put in the 'Texto do Recurso' box
TypedAppealTexts ==
    { <<>>, << Run(SP, 12) >>, << Run("x", 9) >>, << Run("x", 10) >>,
      << Run("x", 5000) >>, << Run("x", 5001) >> }

\* What the user can have typed in the 'Casos Similares' box
TypedAnalysisTopK ==
    { [num |-> FALSE, n |-> 0], [num |-> TRUE, n |-> 50], [num |-> TRUE, n |-> 51] }

\* What the user can have typed in the 'Score Minimo' box, in tenths
TypedMinScore ==
    { [num |-> FALSE, n |-> 0], [num |-> TRUE, n |-> 10], [num |-> TRUE, n |-> -1] }

\* The list GET /instances returns
InstanceList == << "CGU" >>

InitialFormData == [text |-> <<>>, top_k |-> 10, instance_filter |-> "", min_score |-> 0]

NoErrors == [text |-> "none", top_k |-> "none", min_score |-> "none"]

\* results = null
NoResults == [present |-> FALSE, likely_decision |-> "", similar_appeals |-> <<>>,
              hasDraft |-> FALSE]

\* Successful bodies of POST /analyze-appeal[-with-draft]. The Outcome Aggregator
\* fails with InsufficientEvidence on an empty hit set, so a successful body has at
\* least one similar appeal; a draft is present only if one was requested.
AnalysisBodies(draft) ==
    { [present |-> TRUE, likely_decision |-> "Provavelmente Indeferido",
       similar_appeals |-> l, hasDraft |-> d] :
        l \in { << Record("a1") >>, << Record("a1"), Record("a2") >> },
        d \in IF draft THEN BOOLEAN ELSE {FALSE} }

\* How an analysis request can fail: 404 (no similar appeal), 501 (draft generation
\* not available), another status, or no response (0)
AnalysisFailures(draft) == IF draft THEN {404, 501, 500, 0} ELSE {404, 500, 0}

-----------------------------------------------------------------------------
(* AppealAnalysis: handlers *)

\* A plausible slip: the minimum-length test left out
validateFormNoMinimum(fd) ==
    [text |-> IF trim(fd.text) = <<>> THEN "required"
              ELSE IF TextLen(fd.text) > 5000 THEN "long"
              ELSE "none",
     top_k |-> IF fd.top_k < 1 \/ fd.top_k > 50 THEN "range" ELSE "none",
     min_score |-> IF fd.min_score < 0 \/ fd.min_score > 10 THEN "range" ELSE "none"]

\* validateForm: the errors it finds (newErrors); min_score is in tenths
validateForm(fd) ==
    [text |-> IF trim(fd.text) = <<>> THEN "required"
              ELSE IF TextLen(fd.text) < 10 THEN "short"
              ELSE IF TextLen(fd.text) > 5000 THEN "long"
              ELSE "none",
     top_k |-> IF fd.top_k < 1 \/ fd.top_k > 50 THEN "range" ELSE "none",
     min_score |-> IF fd.min_score < 0 \/ fd.min_score > 10 THEN "range" ELSE "none"]

\* handleInputChange for the field name with what was typed
handleInputChange(name, value) ==
    /\ currentPage = "analysis"
    /\ formData' = [formData EXCEPT ![name] = value]
    /\ errors' = IF name \in DOMAIN errors /\ errors[name] # "none"
                 THEN [errors EXCEPT ![name] = "none"] ELSE errors
    /\ UNCHANGED <<currentPage, searchVars, instances, analysisResults,
                   analysisLoading, includeDraft, pending, lastEvent>>
    /\ UNCHANGED <<chatVars, coreVars, viewVars>>

ChangeText(text) == handleInputChange("text", text)

ChangeTopK(typed) == handleInputChange("top_k", OrDefault(parseNumber(typed), 1))

ChangeMinScore(typed) == handleInputChange("min_score", OrDefault(parseNumber(typed), 0))

ChangeInstanceFilter(i) == handleInputChange("instance_filter", i)

\* onChange of the checkbox
ToggleIncludeDraft ==
    /\ currentPage = "analysis"
    /\ includeDraft' = ~includeDraft
    /\ UNCHANGED <<currentPage, searchVars, formData, instances, analysisResults,
                   analysisLoading, errors, pending, lastEvent>>
    /\ UNCHANGED <<chatVars, coreVars, viewVars>>

\* Button disabled={loading}, and the two number inputs within min and max
AnalysisSubmitEnabled ==
    /\ currentPage = "analysis"
    /\ ~analysisLoading
    /\ NumberInputValid(formData.top_k, 1, 50)
    /\ NumberInputValid(formData.min_score, 0, 10)

\* A plausible slip: the shown results are not cleared when an analysis starts
AnalysisResetKeepsResults ==
    /\ analysisLoading' = TRUE
    /\ analysisResults' = analysisResults

\* handleSubmit lines 74-75
AnalysisReset ==
    /\ analysisLoading' = TRUE
    /\ analysisResults' = NoResults

\* handleSubmit up to its await
handleSubmit ==
    /\ AnalysisSubmitEnabled
    /\ errors' = validateForm(formData)
    /\ IF errors' # NoErrors
       THEN /\ lastEvent' = Event("reject", "none", includeDraft, "fix the form")
            /\ UNCHANGED <<analysisResults, analysisLoading, pending>>
       ELSE /\ AnalysisReset
            /\ pending' = pending \cup
                   { Request("analysis", <<>>, <<>>, formData.top_k,
                             formData.min_score, TextLen(formData.text),
                             trim(formData.text) = <<>>, includeDraft) }
            /\ lastEvent' = Event("submit", "none", includeDraft, "none")
    /\ UNCHANGED <<currentPage, searchVars, formData, instances, includeDraft>>
    /\ UNCHANGED <<chatVars, coreVars, viewVars>>

\* The analysis request r is answered 200 with body
AnalysisResponse(r, body) ==
    /\ r \in pending
    /\ r.page = "analysis"
    /\ analysisResults' = body
    /\ analysisLoading' = FALSE
    /\ pending' = pending \ {r}
    /\ lastEvent' = Event("settle", "ok", r.draft,
                          IF r.draft THEN "analysis with draft" ELSE "analysis")
    /\ UNCHANGED <<currentPage, searchVars, formData, instances, includeDraft, errors>>
    /\ UNCHANGED <<chatVars, coreVars, viewVars>>

\* handleSubmit catch block: the toast
AnalysisFailureToast(status) ==
    CASE status = 404 -> "no similar appeal"
      [] status = 501 -> "draft generation not available"
      [] OTHER -> "failed"

\* The analysis request r fails with status (0: no response): catch and finally
AnalysisFailure(r, status) ==
    /\ r \in pending
    /\ r.page = "analysis"
    /\ includeDraft' = IF status = 501 THEN FALSE ELSE includeDraft
    /\ analysisLoading' = FALSE
    /\ pending' = pending \ {r}
    /\ lastEvent' = Event("settle",
                          CASE status = 404 -> "404" [] status = 501 -> "501"
                            [] OTHER -> "failed",
                          r.draft, AnalysisFailureToast(status))
    /\ UNCHANGED <<currentPage, searchVars, formData, instances, analysisResults,
                   errors>>
    /\ UNCHANGED <<chatVars, coreVars, viewVars>>

\* GET /instances of the mount effect
InstancesRequest == Request("instances", <<>>, <<>>, 0, 0, 0, FALSE, FALSE)

\* loadInstances: the list arrives
InstancesLoaded ==
    /\ InstancesRequest \in pending
    /\ instances' = InstanceList
    /\ pending' = pending \ {InstancesRequest}
    /\ UNCHANGED <<currentPage, searchVars, formData, analysisResults,
                   analysisLoading, includeDraft, errors, lastEvent>>
    /\ UNCHANGED <<chatVars, coreVars, viewVars>>

\* loadInstances: the request fails
InstancesFailed ==
    /\ InstancesRequest \in pending
    /\ pending' = pending \ {InstancesRequest}
    /\ lastEvent' = Event("instances", "failed", FALSE, "instances")
    /\ UNCHANGED <<currentPage, searchVars, analysisVars>>
    /\ UNCHANGED <<chatVars, coreVars, viewVars>>

-----------------------------------------------------------------------------
(* App: pages *)

Pages == {"dashboard", "analysis", "protocol", "appeal"}

SearchInitial ==
    /\ identifier = <<>>
    /\ topK = DefaultTopK
    /\ results = <<>>
    /\ original = NoRecord
    /\ loading = FALSE
    /\ error = NoError

AnalysisInitial ==
    /\ formData = InitialFormData
    /\ instances = <<>>
    /\ analysisResults = NoResults
    /\ analysisLoading = FALSE
    /\ includeDraft = FALSE
    /\ errors = NoErrors

\* The useState initial values of a freshly mounted search view
SearchMounted ==
    /\ identifier' = <<>>
    /\ topK' = DefaultTopK
    /\ results' = <<>>
    /\ original' = NoRecord
    /\ loading' = FALSE
    /\ error' = NoError

\* The useState initial values of a freshly mounted AppealAnalysis
AnalysisMounted ==
    /\ formData' = InitialFormData
    /\ instances' = <<>>
    /\ analysisResults' = NoResults
    /\ analysisLoading' = FALSE
    /\ includeDraft' = FALSE
    /\ errors' = NoErrors

MvpInit ==
    /\ currentPage = "dashboard"
    /\ SearchInitial
    /\ AnalysisInitial
    /\ pending = {}
    /\ lastEvent = Event("none", "none", FALSE, "none")

\* Navigation: setCurrentPage(page) unmounts the page shown and mounts a fresh
\* one. The state updates of requests the unmounted component left in flight are
\* dropped, so those requests are no longer tracked.
Navigate(page) ==
    /\ page # currentPage
    /\ currentPage' = page
    /\ SearchMounted
    /\ AnalysisMounted
    /\ pending' = IF page = "analysis" THEN {InstancesRequest} ELSE {}
    /\ lastEvent' = Event("navigate", "none", FALSE, "none")
    /\ UNCHANGED <<chatVars, coreVars, viewVars>>

MvpNext ==
    \/ \E p \in Pages : Navigate(p)
    \/ \E v \in TypedIdentifiers : handleIdentifierChange(v)
    \/ \E v \in TypedTopK : handleTopKChange(v)
    \/ handleSearch
    \/ \E r \in pending, b \in LookupBodies : LookupResponse(r, b)
    \/ \E r \in pending, st \in LookupFailures : LookupFailure(r, st)
    \/ TryAgain
    \/ \E v \in TypedAppealTexts : ChangeText(v)
    \/ \E v \in TypedAnalysisTopK : ChangeTopK(v)
    \/ \E v \in TypedMinScore : ChangeMinScore(v)
    \/ \E i \in {""} \cup {instances[k] : k \in DOMAIN instances} : ChangeInstanceFilter(i)
    \/ ToggleIncludeDraft
    \/ handleSubmit
    \/ \E r \in pending : \E b \in AnalysisBodies(r.draft) : AnalysisResponse(r, b)
    \/ \E r \in pending : \E st \in AnalysisFailures(r.draft) : AnalysisFailure(r, st)
    \/ InstancesLoaded
    \/ InstancesFailed

\* The chat page as loaded and left alone
ChatIdle == ChatInit /\ storage = NoItem

\* No operation of the retrieval core has been called
CoreIdle ==
    /\ coreOp = [name |-> "none", pc |-> "idle"]
    /\ coreIn = <<>>
    /\ coreOut = <<>>

\* No record rendered
CardsIdle ==
    /\ shownIn = "dashboard"
    /\ shown = <<>>
    /\ expandedResponses = {}

\* The Dashboard before its first render
DashboardIdle ==
    /\ healthData = [present |-> FALSE, status |-> "", qdrant_connection |-> "",
                     available |-> FALSE]
    /\ appInfo = healthData
    /\ minutaStatus = healthData
    /\ dashLoading = TRUE
    /\ dashRequests = <<>>
    /\ dashToast = "none"

ViewsIdle == CardsIdle /\ DashboardIdle

\* The React application as loaded, with the chat page idle
MvpLoaded == ChatIdle /\ MvpInit /\ ViewsIdle /\ CoreIdle

\* The chat page as loaded, with the React application idle
ChatLoaded == ChatInit /\ MvpInit /\ ViewsIdle /\ CoreIdle

\* The React application, with the chat page idle
SpecMvp == MvpLoaded /\ [][MvpNext]_vars

\* The chat widget, with the React application idle
SpecChat == ChatLoaded /\ [][ChatNext]_vars

-----------------------------------------------------------------------------
(* React application: properties *)

\* A step in which a request of the search view shown was settled
SearchSettles == currentPage \in SearchPages /\ pending' # pending /\ lastEvent'.kind = "settle"

\* A step in which a request of AppealAnalysis was settled
AnalysisSettles == currentPage = "analysis" /\ pending' # pending /\ lastEvent'.kind = "settle"

\* C5: when an identifier lookup ends in 404, then after the handler the original
\* record is null, the list of similar records is empty, the not-found error is
\* set, the view is no longer loading and no request is in flight (no fallback
\* search was issued).
C5_NotFoundIsTerminal ==
    [][(SearchSettles /\ lastEvent'.outcome = "404") =>
          /\ original' = NoRecord
          /\ results' = <<>>
          /\ error'.kind = "notfound"
          /\ ~loading'
          /\ pending' = {}]_vars

\* C5 witness: a lookup has just ended in 404 and the view shows the not-found
\* error and nothing else.
C5_Witness ==
    /\ currentPage \in SearchPages
    /\ lastEvent.kind = "settle"
    /\ lastEvent.outcome = "404"
    /\ error.kind = "notfound"
    /\ original = NoRecord
    /\ results = <<>>
    /\ pending = {}

\* C6: the error state shown after a 404 is never the error state shown after
\* another failure (no response, 5xx, malformed body): a 404 sets the not-found
\* error, every other failure the generic one, and the two display different texts
\* whatever identifier was typed.
C6_NotFoundDistinguishable ==
    /\ [](\A id \in TypedIdentifiers :
             /\ NotFoundError(id) # GenericError
             /\ ErrorText(NotFoundError(id)) # ErrorText(GenericError))
    /\ [][SearchSettles =>
             /\ lastEvent'.outcome = "404" => error'.kind = "notfound"
             /\ lastEvent'.outcome \in {"failed", "malformed"} => error' = GenericError
             /\ lastEvent'.outcome = "ok" => error' = error]_vars

\* C6 witness: a lookup was answered 200 with a malformed body and the generic
\* error is shown.
C6_Witness ==
    /\ currentPage \in SearchPages
    /\ lastEvent.kind = "settle"
    /\ lastEvent.outcome = "malformed"
    /\ error = GenericError
    /\ ~loading

\* The parameters of request r are within the ranges of the form that issued it
InRange(r) ==
    /\ r.page \in SearchPages => r.top_k \in 1..20
    /\ r.page = "analysis" =>
          /\ r.top_k \in 1..50
          /\ r.min_score \in 0..10
          /\ r.textLen \in 10..5000
          /\ ~r.blank

\* A step in which handleSubmit of AppealAnalysis rejected the form
AnalysisRejects ==
    /\ currentPage = "analysis"
    /\ lastEvent'.kind = "reject"
    /\ errors' # NoErrors
    /\ (errors' # errors \/ lastEvent' # lastEvent)

\* A step in which handleSearch rejected a blank identifier
SearchRejects ==
    /\ currentPage \in SearchPages
    /\ lastEvent'.kind = "reject"
    /\ error' = RequiredError
    /\ (error' # error \/ lastEvent' # lastEvent)

\* C7: every API request in flight carries parameters within the ranges of its
\* form (search views: top_k in 1..20; AppealAnalysis: top_k in 1..50, min_score
\* in 0..1, text of 10..5000 characters and not blank), and a rejected submission
\* leaves results, loading and the requests in flight unchanged.
C7_MalformedQueryRejected ==
    /\ [](\A r \in pending : InRange(r))
    /\ [][/\ AnalysisRejects =>
                UNCHANGED <<analysisResults, analysisLoading, pending>>
          /\ SearchRejects =>
                UNCHANGED <<results, original, loading, pending>>]_vars

\* C7 witness: a submission of a text shorter than 10 characters was rejected while
\* the results of an earlier analysis are shown; they are still shown and nothing
\* was sent.
C7_Witness ==
    /\ currentPage = "analysis"
    /\ lastEvent.kind = "reject"
    /\ errors.text = "short"
    /\ TextLen(formData.text) < 10
    /\ analysisResults.present
    /\ ~analysisLoading
    /\ pending = {}

C10_PartialSuccess ==
    [][(AnalysisSettles /\ lastEvent'.outcome = "501" /\ lastEvent'.draft) =>
          /\ analysisResults'.present
          /\ ~analysisResults'.hasDraft]_vars

\* C10 witness: an analysis with draft has just been answered 501; no results are
\* displayed and the draft checkbox has been cleared.
C10_Witness ==
    /\ currentPage = "analysis"
    /\ lastEvent.kind = "settle"
    /\ lastEvent.outcome = "501"
    /\ lastEvent.draft
    /\ analysisResults = NoResults
    /\ ~includeDraft

-----------------------------------------------------------------------------
(* Chat widget: progress *)

\* The step of a chat submission that the browser itself takes: the 500 ms timer.
\* A /chat response is the server's step: fetch is called without a signal or a
\* timer, so nothing in the page settles a request the server leaves unanswered.
ChatProgress == WF_vars(TypingTimerFires)

\* The steps of the chat widget over its first MaxLiveSubmits submissions
ChatLiveNext ==
    \/ DOMContentLoaded
    \/ \E o \in StatsOutcomes : StatsSettled(o)
    \/ \E t \in TypedMessages : TypeMessage(t)
    \/ FormSubmit /\ nreq' <= MaxLiveSubmits
    \/ CtrlEnter /\ nreq' <= MaxLiveSubmits
    \/ \E q \in ExampleQuestions : ExampleClick(q) /\ nreq' <= MaxLiveSubmits
    \/ TypingTimerFires
    \/ \E r \in inFlight, s \in SourceLists : ResponseAnswer(r, s)
    \/ \E r \in inFlight, s \in SourceLists : ResponseNoAnswer(r, s)
    \/ \E r \in inFlight, e \in ChatErrors : ResponseError(r, e)
    \/ HideSources

\* The chat widget with the steps of the browser taken eventually
SpecChatLive == ChatLoaded /\ [][ChatLiveNext]_vars /\ ChatProgress

\* C11: every accepted chat submission eventually completes: state.isLoading
\* returns to false and the controls are enabled again, even if the server never
\* answers.
C11_SubmissionCompletes == isLoading ~> (~isLoading /\ ~controlsDisabled)

\* C11 witness: a request is in flight, the typing timer has fired, and the page
\* has no step of its own left to take.
C11_Witness ==
    /\ isLoading
    /\ controlsDisabled
    /\ inFlight # {}
    /\ ~typingTimeout
    /\ typingDisplay
    /\ chatPc = "ready"
    /\ ~ENABLED TypingTimerFires

-----------------------------------------------------------------------------
(* Retrieval core: Outcome Aggregator (spec 4.5) *)

\* The decision labels (spec 3), in the fixed priority order that breaks ties
DecisionPriority == << "Granted", "Denied", "PartiallyGranted", "NotKnown", "Moot" >>

DecisionLabels == { DecisionPriority[i] : i \in DOMAIN DecisionPriority }

\* n copies of x
RECURSIVE Repeat(_, _)
Repeat(x, n) == IF n = 0 THEN <<>> ELSE << x >> \o Repeat(x, n - 1)

\* The hits with c[i] appeals of the i-th label, label after label
RECURSIVE HitsOfCounts(_, _)
HitsOfCounts(c, i) ==
    IF i > Len(DecisionPriority) THEN <<>>
    ELSE Repeat(DecisionPriority[i], c[i]) \o HitsOfCounts(c, i + 1)

\* The appeal hits given to aggregate, each by its decision: every combination of
\* counts per label, and every short sequence in every order
AggregateInputs ==
    { HitsOfCounts(c, 1) : c \in [DOMAIN DecisionPriority -> 0..MaxLabelCount] }
    \cup UNION { [1..n -> DecisionLabels] : n \in 0..MaxOrdered }

\* Number of hits with decision label l
CountOf(hits, l) == Cardinality({ i \in DOMAIN hits : hits[i] = l })

\* percentage = 100 * count / total, kept exact as a fraction
Percentage(count, total) == [num |-> 100 * count, den |-> total]

\* A plausible slip: the percentage cut to one decimal instead of rounded
toFixed1Truncated(p) == (10 * p.num) \div p.den

\* stats.percentage.toFixed(1) as displayed, in tenths: the nearest tenth, the
\* larger one when two are equally near
toFixed1(p) == (20 * p.num + p.den) \div (2 * p.den)

\* A plausible slip: among the labels of highest count, the one met first in the hits
predictedLabelFirstSeen(hits) ==
    LET most == CHOOSE n \in 0..Len(hits) :
                    /\ \E l \in DecisionLabels : CountOf(hits, l) = n
                    /\ \A l \in DecisionLabels : CountOf(hits, l) <= n
        first == CHOOSE i \in DOMAIN hits :
                    /\ CountOf(hits, hits[i]) = most
                    /\ \A j \in 1..(i - 1) : CountOf(hits, hits[j]) # most
    IN hits[first]

\* predictedLabel: the label of highest count, the first of them in priority order
predictedLabel(hits) ==
    LET most == CHOOSE n \in 0..Len(hits) :
                    /\ \E l \in DecisionLabels : CountOf(hits, l) = n
                    /\ \A l \in DecisionLabels : CountOf(hits, l) <= n
        first == CHOOSE i \in DOMAIN DecisionPriority :
                    /\ CountOf(hits, DecisionPriority[i]) = most
                    /\ \A j \in 1..(i - 1) : CountOf(hits, DecisionPriority[j]) # most
    IN DecisionPriority[first]

\* aggregate failed
InsufficientEvidence ==
    [ok |-> FALSE, error |-> "InsufficientEvidence", labels |-> {},
     stats |-> [l \in {} |-> 0], predictedLabel |-> ""]

\* aggregate(appealHits): the DecisionStats, or InsufficientEvidence
aggregate(hits) ==
    IF hits = <<>> THEN InsufficientEvidence
    ELSE LET present == { l \in DecisionLabels : CountOf(hits, l) > 0 }
         IN [ok |-> TRUE, error |-> "",
             labels |-> present,
             stats |-> [l \in present |->
                          [count |-> CountOf(hits, l),
                           percentage |-> Percentage(CountOf(hits, l), Len(hits))]],
             predictedLabel |-> predictedLabel(hits)]

\* aggregate is called with some hits
AggregateCalled ==
    /\ coreOp = [name |-> "aggregate", pc |-> "called"]
    /\ coreIn \in { [hits |-> h] : h \in AggregateInputs }
    /\ coreOut = InsufficientEvidence

\* aggregate returns
Aggregate ==
    /\ coreOp = [name |-> "aggregate", pc |-> "called"]
    /\ coreOut' = aggregate(coreIn.hits)
    /\ coreOp' = [coreOp EXCEPT !.pc = "returned"]
    /\ UNCHANGED <<coreIn, chatVars, mvpVars, viewVars>>

AggregateNext == Aggregate

\* The front ends idle and aggregate called
AggregateInit == ChatIdle /\ MvpInit /\ ViewsIdle /\ AggregateCalled

\* One call of the Outcome Aggregator
SpecAggregate == AggregateInit /\ [][AggregateNext]_vars

\* aggregate has returned statistics
AggregateReturned == coreOp = [name |-> "aggregate", pc |-> "returned"] /\ coreOut.ok

\* Sum of f[x] over the set S
RECURSIVE SumOver(_, _)
SumOver(f, S) ==
    IF S = {} THEN 0
    ELSE LET x == CHOOSE y \in S : TRUE IN f[x] + SumOver(f, S \ {x})

\* The displayed percentages of the statistics st, summed, in tenths
DisplayedSum(st) ==
    SumOver([l \in st.labels |-> toFixed1(st.stats[l].percentage)], st.labels)

\* Distance of a from b
Dist(a, b) == IF a >= b THEN a - b ELSE b - a

\* C12 as stated: the percentages as displayed sum to 100 within 0.1.
C12_Original == AggregateReturned => Dist(DisplayedSum(coreOut), 1000) <= 1

\* C12: for every non-empty set of hits the exact percentages 100 * count / total
\* sum to 100; displayed with one decimal (each value off by at most 0.05) they
\* sum to 100 within 0.2, and within 0.1 when at most three labels are present.
C12_PercentagesSum ==
    AggregateReturned =>
        /\ \A l \in coreOut.labels : coreOut.stats[l].percentage.den = Len(coreIn.hits)
        /\ SumOver([l \in coreOut.labels |-> coreOut.stats[l].percentage.num],
                   coreOut.labels) = 100 * Len(coreIn.hits)
        /\ Dist(DisplayedSum(coreOut), 1000) <= 2
        /\ Cardinality(coreOut.labels) <= 3 => Dist(DisplayedSum(coreOut), 1000) <= 1

\* C12 witness: 17 hits of five labels (3, 3, 3, 4, 4) display 17.6 three times and
\* 23.5 twice: 99.8.
C12_Witness ==
    /\ AggregateReturned
    /\ Len(coreIn.hits) = 17
    /\ Cardinality(coreOut.labels) = 5
    /\ DisplayedSum(coreOut) = 998

\* Position of label l in the priority order
PriorityOf(l) == CHOOSE i \in DOMAIN DecisionPriority : DecisionPriority[i] = l

\* The hits in the opposite order
Reverse(hits) == [i \in DOMAIN hits |-> hits[Len(hits) + 1 - i]]

\* The same hits ordered label after label
Regrouped(hits) ==
    HitsOfCounts([i \in DOMAIN DecisionPriority |-> CountOf(hits, DecisionPriority[i])], 1)

\* C13: for every non-empty set of hits predictedLabel has the highest count, among
\* the labels of highest count it is the first in the priority order, and the
\* statistics are the same for the same hits in another order.
C13_PredictedLabel ==
    AggregateReturned =>
        LET hits == coreIn.hits
            p == coreOut.predictedLabel
        IN /\ p \in coreOut.labels
           /\ \A l \in DecisionLabels : CountOf(hits, l) <= CountOf(hits, p)
           /\ \A l \in DecisionLabels \ {p} :
                 CountOf(hits, l) = CountOf(hits, p) => PriorityOf(p) < PriorityOf(l)
           /\ coreOut = aggregate(Reverse(hits))
           /\ coreOut = aggregate(Regrouped(hits))

\* C13 witness: two labels tie, the hits name the one of lower priority first, and
\* the one of higher priority is predicted.
C13_Witness ==
    /\ AggregateReturned
    /\ coreIn.hits = << "Denied", "Granted", "Moot" >>
    /\ coreOut.predictedLabel = "Granted"

-----------------------------------------------------------------------------
(* Retrieval core: Vector Index search (spec 4.2) *)

\* The deciding bodies a record can carry, and the filters of a search ("": none)
Instances == { "CGU", "CMRI" }

InstanceFilters == { "" } \cup Instances

\* The contents of an index as a search sees them: the records in insertion order,
\* each with its instance and the similarity of its embedding to the query vector;
\* the id of a record is its position
IndexContents ==
    UNION { [1..n -> [score : 0..MaxScore, instance : Instances]] : n \in 0..MaxIndex }

\* The hit of the record at position i
Hit(index, i) == [id |-> i, score |-> index[i].score, instance |-> index[i].instance]

\* The hits of all records, in insertion order
AllHits(index) == [i \in DOMAIN index |-> Hit(index, i)]

\* A hit clears the threshold and passes the filter
Eligible(h, minScore, filter) ==
    /\ h.score >= minScore
    /\ filter = "" \/ h.instance = filter

\* The eligible hits, in insertion order
RECURSIVE Select(_, _, _)
Select(hits, minScore, filter) ==
    IF hits = <<>> THEN <<>>
    ELSE (IF Eligible(Head(hits), minScore, filter) THEN << Head(hits) >> ELSE <<>>)
         \o Select(Tail(hits), minScore, filter)

\* A plausible slip: the hit goes before the hits of equal score
RECURSIVE InsertBeforeEqual(_, _)
InsertBeforeEqual(sorted, h) ==
    IF sorted = <<>> THEN << h >>
    ELSE IF Head(sorted).score > h.score
         THEN << Head(sorted) >> \o InsertBeforeEqual(Tail(sorted), h)
         ELSE << h >> \o sorted

\* h inserted into hits sorted by descending score, after the hits of equal score
RECURSIVE InsertByScore(_, _)
InsertByScore(sorted, h) ==
    IF sorted = <<>> THEN << h >>
    ELSE IF Head(sorted).score >= h.score
         THEN << Head(sorted) >> \o InsertByScore(Tail(sorted), h)
         ELSE << h >> \o sorted

\* The hits by descending score, equal scores in insertion order
RECURSIVE SortByScore(_)
SortByScore(hits) ==
    IF hits = <<>> THEN <<>>
    ELSE InsertByScore(SortByScore(SubSeq(hits, 1, Len(hits) - 1)), hits[Len(hits)])

\* The first k elements
Take(seq, k) == SubSeq(seq, 1, IF k < Len(seq) THEN k ELSE Len(seq))

\* A plausible slip: no truncation to topK
searchUntruncated(index, k, minScore, filter) ==
    SortByScore(Select(AllHits(index), minScore, filter))

\* A plausible slip: truncation before ranking
searchTruncateFirst(index, k, minScore, filter) ==
    SortByScore(Take(Select(AllHits(index), minScore, filter), k))

\* search(vector, topK, minScore, filter): at most topK hits of score >= minScore
\* that pass the filter, by descending score
search(index, k, minScore, filter) ==
    Take(SortByScore(Select(AllHits(index), minScore, filter)), k)

\* search is called on some index with some arguments
SearchCalled ==
    /\ coreOp = [name |-> "search", pc |-> "called"]
    /\ coreIn \in [index : IndexContents, topK : 1..MaxTopK, minScore : 0..MaxScore,
                   filter : InstanceFilters]
    /\ coreOut = [first |-> <<>>, second |-> <<>>]

\* The call returns
Search ==
    /\ coreOp = [name |-> "search", pc |-> "called"]
    /\ coreOut' = [coreOut EXCEPT
                     !.first = search(coreIn.index, coreIn.topK, coreIn.minScore,
                                      coreIn.filter)]
    /\ coreOp' = [coreOp EXCEPT !.pc = "returned"]
    /\ UNCHANGED <<coreIn, chatVars, mvpVars, viewVars>>

\* The same call again on the unchanged index
SearchAgain ==
    /\ coreOp = [name |-> "search", pc |-> "returned"]
    /\ coreOut' = [coreOut EXCEPT
                     !.second = search(coreIn.index, coreIn.topK, coreIn.minScore,
                                       coreIn.filter)]
    /\ coreOp' = [coreOp EXCEPT !.pc = "repeated"]
    /\ UNCHANGED <<coreIn, chatVars, mvpVars, viewVars>>

SearchNext == Search \/ SearchAgain

\* The front ends idle and search called
SearchInit == ChatIdle /\ MvpInit /\ ViewsIdle /\ SearchCalled

\* Calls of search on one index
SpecSearch == SearchInit /\ [][SearchNext]_vars

\* search has returned (once or twice)
SearchReturned == coreOp.name = "search" /\ coreOp.pc \in {"returned", "repeated"}

\* The eligible records of the index searched, as a set of hits
EligibleHits ==
    { Hit(coreIn.index, i) : i \in
        { j \in DOMAIN coreIn.index :
            Eligible(Hit(coreIn.index, j), coreIn.minScore, coreIn.filter) } }

\* The hits of a result, as a set
HitSet(result) == { result[i] : i \in DOMAIN result }

\* C14: for every topK and every index content the result of search has at most
\* topK hits and their scores do not increase from one hit to the next.
C14_BoundedAndSorted ==
    SearchReturned =>
        /\ Len(coreOut.first) <= coreIn.topK
        /\ \A i \in 1..(Len(coreOut.first) - 1) :
              coreOut.first[i].score >= coreOut.first[i + 1].score

\* C14 witness: more records are eligible than topK, with different scores, the
\* last inserted scoring highest, and search has returned topK of them.
C14_Witness ==
    /\ SearchReturned
    /\ Cardinality(EligibleHits) > coreIn.topK
    /\ Len(coreOut.first) = coreIn.topK
    /\ coreIn.topK >= 2
    /\ coreOut.first[1].id = Len(coreIn.index)
    /\ coreOut.first[1].score > coreOut.first[2].score

\* C15: every returned hit is a record of the index that passes the filter and has
\* score >= minScore, no hit is returned twice, no eligible record scoring strictly
\* higher than a returned hit is left out, as many hits are returned as topK and
\* the eligible records allow, and with no eligible record the result is the empty
\* sequence.
C15_BestEligible ==
    SearchReturned =>
        /\ HitSet(coreOut.first) \subseteq EligibleHits
        /\ Cardinality(HitSet(coreOut.first)) = Len(coreOut.first)
        /\ \A h \in HitSet(coreOut.first) : \A e \in EligibleHits :
              e.score > h.score => e \in HitSet(coreOut.first)
        /\ Len(coreOut.first) =
              (IF Cardinality(EligibleHits) < coreIn.topK
               THEN Cardinality(EligibleHits) ELSE coreIn.topK)
        /\ EligibleHits = {} => coreOut.first = <<>>

\* C15 witness: a filter and a threshold are given, a record of the index is not
\* eligible, more eligible records remain than topK, and the result leaves out an
\* eligible record that scores no higher than the hits returned.
C15_Witness ==
    /\ SearchReturned
    /\ coreIn.filter # ""
    /\ coreIn.minScore > 0
    /\ Cardinality(EligibleHits) < Len(coreIn.index)
    /\ coreOut.first # <<>>
    /\ HitSet(coreOut.first) # EligibleHits

-----------------------------------------------------------------------------
(* Retrieval core: Intent Router (spec 4.1) *)

\* A query text as its tokens: a run of n digits, or a word
Digits(n) == [kind |-> "digits", n |-> n, word |-> ""]

Word(w) == [kind |-> "word", n |-> 0, word |-> w]

\* Number of digits of a Request protocol, and of the appeal ids in the examples
ProtocolDigits == 17

AppealIdDigits == 7

\* The tokens queries are made of: a protocol, a short number, appeal vocabulary,
\* request vocabulary, a connective and a topic word
QueryTokens ==
    { Digits(ProtocolDigits), Digits(AppealIdDigits), Word("recurso"), Word("pedidos"),
      Word("com"), Word("enchentes") }

QueryTexts == UNION { [1..n -> QueryTokens] : n \in 0..MaxTokens }

\* Pattern tables of the router
IsProtocol(t) == t.kind = "digits" /\ t.n >= ProtocolDigits

IsShortNumber(t) == t.kind = "digits" /\ t.n < ProtocolDigits

IsAppealWord(t) == t.kind = "word" /\ t.word \in { "recurso", "recursos" }

IsRequestWord(t) == t.kind = "word" /\ t.word \in { "pedido", "pedidos" }

IsConnective(t) == t.kind = "word" /\ t.word \in { "com", "possuem" }

\* The text contains a token in the Request protocol format
HasProtocol(q) == \E i \in DOMAIN q : IsProtocol(q[i])

\* The text contains a short number that follows appeal vocabulary
HasAppealId(q) == \E i \in 2..Len(q) : IsShortNumber(q[i]) /\ IsAppealWord(q[i - 1])

\* The text relates the two record types: request vocabulary, a connective, then
\* appeal vocabulary
HasRelation(q) ==
    \E i, j, k \in DOMAIN q :
        /\ i < j /\ j < k
        /\ IsRequestWord(q[i]) /\ IsConnective(q[j]) /\ IsAppealWord(q[k])

\* The position of the first token that satisfies the test at position i
FirstProtocol(q) == CHOOSE i \in DOMAIN q :
    IsProtocol(q[i]) /\ \A j \in 1..(i - 1) : ~IsProtocol(q[j])

FirstAppealId(q) == CHOOSE i \in 2..Len(q) :
    /\ IsShortNumber(q[i]) /\ IsAppealWord(q[i - 1])
    /\ \A j \in 2..(i - 1) : ~(IsShortNumber(q[j]) /\ IsAppealWord(q[j - 1]))

\* An intent: its kind, the position of the identifier it carries (0: none) and
\* the corpus it searches
Intent(kind, at, corpus) == [kind |-> kind, at |-> at, corpus |-> corpus]

\* A plausible slip: the appeal-id rule tried before the protocol rule
classifyAppealFirst(q) ==
    IF HasAppealId(q) THEN Intent("AppealLookup", FirstAppealId(q), "Appeals")
    ELSE IF HasProtocol(q) THEN Intent("ProtocolLookup", FirstProtocol(q), "Requests")
    ELSE IF HasRelation(q) THEN Intent("CrossReference", 0, "Both")
    ELSE Intent("SemanticSearch", 0,
                IF \E i \in DOMAIN q : IsAppealWord(q[i]) THEN "Appeals" ELSE "Requests")

\* classify(queryText): the four rules in priority order
classify(q) ==
    IF HasProtocol(q) THEN Intent("ProtocolLookup", FirstProtocol(q), "Requests")
    ELSE IF HasAppealId(q) THEN Intent("AppealLookup", FirstAppealId(q), "Appeals")
    ELSE IF HasRelation(q) THEN Intent("CrossReference", 0, "Both")
    ELSE Intent("SemanticSearch", 0,
                IF \E i \in DOMAIN q : IsAppealWord(q[i]) THEN "Appeals" ELSE "Requests")

\* classify is called on some text
ClassifyCalled ==
    /\ coreOp = [name |-> "classify", pc |-> "called"]
    /\ coreIn \in { [text |-> q] : q \in QueryTexts }
    /\ coreOut = Intent("none", 0, "")

\* classify returns
Classify ==
    /\ coreOp = [name |-> "classify", pc |-> "called"]
    /\ coreOut' = classify(coreIn.text)
    /\ coreOp' = [coreOp EXCEPT !.pc = "returned"]
    /\ UNCHANGED <<coreIn, chatVars, mvpVars, viewVars>>

RouterNext == Classify

\* The front ends idle and classify called
RouterInit == ChatIdle /\ MvpInit /\ ViewsIdle /\ ClassifyCalled

\* One call of the Intent Router
SpecRouter == RouterInit /\ [][RouterNext]_vars

\* classify has returned
Classified == coreOp = [name |-> "classify", pc |-> "returned"]

\* C17: classify returns for every text (it is enabled whenever called), the intent
\* is one of the four; it is ProtocolLookup of the first protocol whenever the text
\* contains a protocol, whatever else it contains; AppealLookup whenever there is
\* no protocol and an appeal id, even with relational phrasing; SemanticSearch
\* whenever there is neither an identifier nor relational phrasing.
C17_RouterPriority ==
    /\ coreOp = [name |-> "classify", pc |-> "called"] => ENABLED Classify
    /\ Classified =>
          LET q == coreIn.text
          IN /\ coreOut.kind \in { "ProtocolLookup", "AppealLookup", "CrossReference",
                                   "SemanticSearch" }
             /\ HasProtocol(q) =>
                   coreOut.kind = "ProtocolLookup" /\ IsProtocol(q[coreOut.at])
             /\ (~HasProtocol(q) /\ HasAppealId(q)) =>
                   coreOut.kind = "AppealLookup" /\ IsShortNumber(q[coreOut.at])
             /\ (~HasProtocol(q) /\ ~HasAppealId(q) /\ HasRelation(q)) =>
                   coreOut.kind = "CrossReference"
             /\ (~HasProtocol(q) /\ ~HasAppealId(q) /\ ~HasRelation(q)) =>
                   coreOut.kind = "SemanticSearch"

\* C17 witness: a text with an appeal id followed by a protocol has been classified
\* as the lookup of that protocol.
C17_Witness ==
    /\ Classified
    /\ HasAppealId(coreIn.text)
    /\ HasProtocol(coreIn.text)
    /\ FirstAppealId(coreIn.text) < FirstProtocol(coreIn.text)
    /\ coreOut = Intent("ProtocolLookup", FirstProtocol(coreIn.text), "Requests")

-----------------------------------------------------------------------------
(* Retrieval core: Cross-Reference Joiner (spec 4.4) *)

\* The stricter threshold of the secondary searches, and the scores a candidate
\* Request of the first phase can have
JoinMinScore == 1

CandidateScores == { 1, 2 }

\* What the secondary search seeded by a candidate finds in the Appeals index: no
\* hit, or one hit below, at or above the threshold
SecondaryHits ==
    { <<>>, << JoinMinScore - 1 >>, << JoinMinScore >>, << JoinMinScore + 1 >> }

\* The candidate Requests of step 2, as search returns them (scores not increasing),
\* each with what its secondary search will find
CandidateLists ==
    { c \in UNION { [1..n -> [score : CandidateScores, linked : SecondaryHits]] :
                      n \in 0..MaxCandidates } :
        \A i \in 1..(Len(c) - 1) : c[i].score >= c[i + 1].score }

\* The appeal hits of a secondary search that clear the stricter threshold
RECURSIVE Accepted(_)
Accepted(hits) ==
    IF hits = <<>> THEN <<>>
    ELSE (IF Head(hits) >= JoinMinScore THEN << Head(hits) >> ELSE <<>>)
         \o Accepted(Tail(hits))

\* Candidate i joined with the appeals its secondary search resolved; the combined
\* score is the sum of the two similarity scores (twice their mean)
Joined(candidates, i) ==
    LET a == Accepted(candidates[i].linked)
    IN [request |-> i, appeals |-> a,
        combined |-> candidates[i].score + (IF a = <<>> THEN 0 ELSE a[1])]

\* A plausible slip: every candidate is kept, joined or not
SurvivingAll(gathered) == gathered

\* Step 4: only the Requests that resolved at least one linked Appeal
RECURSIVE Surviving(_)
Surviving(gathered) ==
    IF gathered = <<>> THEN <<>>
    ELSE (IF Head(gathered).appeals # <<>> THEN << Head(gathered) >> ELSE <<>>)
         \o Surviving(Tail(gathered))

\* A plausible slip: entries of equal combined score stay in the order they arrived
RECURSIVE InsertRankedArrival(_, _)
InsertRankedArrival(ranked, e) ==
    IF ranked = <<>> THEN << e >>
    ELSE IF Head(ranked).combined >= e.combined
         THEN << Head(ranked) >> \o InsertRankedArrival(Tail(ranked), e)
         ELSE << e >> \o ranked

\* e inserted into entries ranked by descending combined score, equal scores by
\* the rank of the Request among the candidates
RECURSIVE InsertRanked(_, _)
InsertRanked(ranked, e) ==
    IF ranked = <<>> THEN << e >>
    ELSE IF \/ Head(ranked).combined > e.combined
            \/ Head(ranked).combined = e.combined /\ Head(ranked).request < e.request
         THEN << Head(ranked) >> \o InsertRanked(Tail(ranked), e)
         ELSE << e >> \o ranked

RECURSIVE Rerank(_)
Rerank(entries) ==
    IF entries = <<>> THEN <<>>
    ELSE InsertRanked(Rerank(SubSeq(entries, 1, Len(entries) - 1)), entries[Len(entries)])

\* Step 4 on the gathered entries
JoinResult(gathered, k) == Take(Rerank(Surviving(gathered)), k)

\* The joiner is called: step 2 has produced the candidates
JoinCalled ==
    /\ coreOp = [name |-> "crossReference", pc |-> "called"]
    /\ coreIn \in [candidates : CandidateLists, topK : 1..MaxTopK]
    /\ coreOut = [outstanding |-> {}, gathered |-> <<>>, result |-> <<>>]

\* Step 3 begins: one secondary search per candidate is issued
JoinStart ==
    /\ coreOp = [name |-> "crossReference", pc |-> "called"]
    /\ coreOut' = [coreOut EXCEPT !.outstanding = DOMAIN coreIn.candidates]
    /\ coreOp' = [coreOp EXCEPT !.pc = "searching"]
    /\ UNCHANGED <<coreIn, chatVars, mvpVars, viewVars>>

\* The secondary search of candidate i completes and its outcome is gathered
SecondaryDone(i) ==
    /\ coreOp = [name |-> "crossReference", pc |-> "searching"]
    /\ i \in coreOut.outstanding
    /\ coreOut' = [coreOut EXCEPT
                     !.outstanding = @ \ {i},
                     !.gathered = Append(@, Joined(coreIn.candidates, i))]
    /\ UNCHANGED <<coreOp, coreIn, chatVars, mvpVars, viewVars>>

\* Step 4, once every secondary search has completed
JoinReturn ==
    /\ coreOp = [name |-> "crossReference", pc |-> "searching"]
    /\ coreOut.outstanding = {}
    /\ coreOut' = [coreOut EXCEPT !.result = JoinResult(coreOut.gathered, coreIn.topK)]
    /\ coreOp' = [coreOp EXCEPT !.pc = "returned"]
    /\ UNCHANGED <<coreIn, chatVars, mvpVars, viewVars>>

JoinNext ==
    \/ JoinStart
    \/ \E i \in 1..MaxCandidates : SecondaryDone(i)
    \/ JoinReturn

\* The front ends idle and the joiner called
JoinInit == ChatIdle /\ MvpInit /\ ViewsIdle /\ JoinCalled

\* One call of the Cross-Reference Joiner
SpecJoin == JoinInit /\ [][JoinNext]_vars

\* The joiner has returned
JoinReturned == coreOp = [name |-> "crossReference", pc |-> "returned"]

\* The candidates whose secondary search resolves at least one Appeal
Resolving ==
    { i \in DOMAIN coreIn.candidates : Accepted(coreIn.candidates[i].linked) # <<>> }

\* C18: every Request of a CrossReference result is a candidate with at least one
\* joined Appeal, no Request appears twice, as many are returned as topK and the
\* resolving candidates allow, and with no candidate, or none that resolves an
\* Appeal, the joiner returns the empty sequence.
C18_Intersection ==
    JoinReturned =>
        /\ \A k \in DOMAIN coreOut.result :
              /\ coreOut.result[k].appeals # <<>>
              /\ coreOut.result[k].request \in Resolving
        /\ \A k, m \in DOMAIN coreOut.result :
              coreOut.result[k].request = coreOut.result[m].request => k = m
        /\ Len(coreOut.result) =
              (IF Cardinality(Resolving) < coreIn.topK
               THEN Cardinality(Resolving) ELSE coreIn.topK)
        /\ Resolving = {} => coreOut.result = <<>>

\* C18 witness: there are candidates, the only appeal hit found is below the
\* threshold, and the joiner has returned the empty sequence.
C18_Witness ==
    /\ JoinReturned
    /\ Len(coreIn.candidates) >= 2
    /\ \E i \in DOMAIN coreIn.candidates : coreIn.candidates[i].linked # <<>>
    /\ Resolving = {}
    /\ coreOut.result = <<>>

\* The entries of all candidates in candidate order
InCandidateOrder == [i \in DOMAIN coreIn.candidates |-> Joined(coreIn.candidates, i)]

-----------------------------------------------------------------------------
(* Retrieval core: identifier lookup of the Retriever (spec 4.3) *)

\* An index whose records carry an embedding (one component, 0..MaxScore) and an
\* instance; the identifier (protocol or appeal id) of a record is its position
KeyedIndexes ==
    UNION { [1..n -> [vector : 0..MaxScore, instance : Instances]] : n \in 0..MaxIndex }

\* Similarity of two embeddings: highest (MaxScore) for equal ones
Similarity(u, v) == MaxScore - (IF u >= v THEN u - v ELSE v - u)

\* The index as the search seeded by the record at position p sees it
Seeded(index, p) ==
    [i \in DOMAIN index |->
        [score |-> Similarity(index[i].vector, index[p].vector),
         instance |-> index[i].instance]]

\* The hits other than the one of record p
RECURSIVE Excluding(_, _)
Excluding(hits, p) ==
    IF hits = <<>> THEN <<>>
    ELSE (IF Head(hits).id # p THEN << Head(hits) >> ELSE <<>>) \o Excluding(Tail(hits), p)

\* A plausible slip: the seed record is not excluded from its own neighbours
similarToWithSelf(index, p, k) == search(Seeded(index, p), k, 0, "")

\* The records most similar to record p, itself excluded, at most k
similarTo(index, p, k) ==
    Take(SortByScore(Excluding(Select(AllHits(Seeded(index, p)), 0, ""), p)), k)

\* The lookup failed
NotFound == [ok |-> FALSE, error |-> "NotFound", original |-> 0, similar |-> <<>>]

\* ProtocolLookup / AppealLookup: the record of identifier p and its similar
\* records, or NotFound
lookup(index, p, k) ==
    IF p \notin DOMAIN index THEN NotFound
    ELSE [ok |-> TRUE, error |-> "", original |-> p, similar |-> similarTo(index, p, k)]

\* A lookup is called with some identifier
LookupCalled ==
    /\ coreOp = [name |-> "lookup", pc |-> "called"]
    /\ coreIn \in [index : KeyedIndexes, id : 1..(MaxIndex + 1), topK : 1..MaxTopK]
    /\ coreOut = NotFound

\* The lookup returns
Lookup ==
    /\ coreOp = [name |-> "lookup", pc |-> "called"]
    /\ coreOut' = lookup(coreIn.index, coreIn.id, coreIn.topK)
    /\ coreOp' = [coreOp EXCEPT !.pc = "returned"]
    /\ UNCHANGED <<coreIn, chatVars, mvpVars, viewVars>>

LookupNext == Lookup

\* The front ends idle and a lookup called
LookupInit == ChatIdle /\ MvpInit /\ ViewsIdle /\ LookupCalled

\* One identifier lookup
SpecLookup == LookupInit /\ [][LookupNext]_vars

\* The lookup has returned a record
LookupSucceeded == coreOp = [name |-> "lookup", pc |-> "returned"] /\ coreOut.ok

\* C20: after a successful lookup the original record is the one looked up, the
\* list of similar records does not contain it, names no record twice, and has at
\* most topK entries (as many as topK and the other records allow).
C20_SimilarExcludesOriginal ==
    LookupSucceeded =>
        /\ coreOut.original = coreIn.id
        /\ \A k \in DOMAIN coreOut.similar : coreOut.similar[k].id # coreOut.original
        /\ \A k, m \in DOMAIN coreOut.similar :
              coreOut.similar[k].id = coreOut.similar[m].id => k = m
        /\ Len(coreOut.similar) <= coreIn.topK
        /\ Len(coreOut.similar) =
              (IF Len(coreIn.index) - 1 < coreIn.topK
               THEN Len(coreIn.index) - 1 ELSE coreIn.topK)

\* C20 witness: the index holds more other records than topK, one of them with the
\* same embedding as the record looked up, and topK similar records were returned.
C20_Witness ==
    /\ LookupSucceeded
    /\ Len(coreIn.index) - 1 > coreIn.topK
    /\ Len(coreOut.similar) = coreIn.topK
    /\ coreOut.similar[1].score = MaxScore
    /\ coreOut.similar[1].id # coreIn.id

-----------------------------------------------------------------------------
(* Context Assembler (spec section 4.6): sizes are counted in units *)

\* Bounds: longest conversation history, most evidence hits, largest turn or hit
MaxTurns == 3

MaxHits == 2

MaxPartSize == 2

\* The maximum total size of a context
ContextBudget == 6

\* The size of the grounding (system) instruction
InstructionSize == 1

\* N: the history window, in turns
HistoryWindow == 2

\* A conversation history: the turns in time order, each with its size
Histories ==
    UNION { [1..n -> 1..MaxPartSize] : n \in 0..MaxTurns }

\* Evidence as the Retriever hands it over: hits [score, size] in rank order
\* (non-increasing score)
EvidenceLists ==
    { e \in UNION { [1..n -> [score : 1..MaxScore, size : 1..MaxPartSize]] : n \in 0..MaxHits } :
        \A i \in 1..(Len(e) - 1) : e[i].score >= e[i + 1].score }

\* The size of the current question: small, or alone as large as the budget
QuestionSizes == {1, 2, ContextBudget}

\* A context: instruction + history + evidence + question (sizes; 0: absent)
Context(instruction, hist, evidence, question) ==
    [instruction |-> instruction, history |-> hist, evidence |-> evidence,
     question |-> question]

NoContext == Context(0, <<>>, <<>>, 0)

RECURSIVE SumSizes(_)
SumSizes(parts) == IF parts = <<>> THEN 0 ELSE Head(parts).size + SumSizes(Tail(parts))

\* The total size of a context
ContextSize(c) ==
    c.instruction + SumSizes(c.history) + SumSizes(c.evidence) + c.question

OverBudget(c) == ContextSize(c) > ContextBudget

\* The turns of history h, each with its position in h
Numbered(h) == [i \in DOMAIN h |-> [turn |-> i, size |-> h[i]]]

\* A plausible slip: the best hit is dropped instead of the worst
DropHighest(evidence) == Tail(evidence)

\* The evidence without its lowest-scoring hit (the last in rank order)
DropLowest(evidence) == SubSeq(evidence, 1, Len(evidence) - 1)

\* assemble is called with a history, ranked evidence and the current question
AssembleCalled ==
    /\ coreOp = [name |-> "assemble", pc |-> "called"]
    /\ coreIn \in [history : Histories, evidence : EvidenceLists, question : QuestionSizes]
    /\ coreOut = NoContext

\* The parts are put together: instruction, the most recent N turns, the evidence
\* and the question
AssembleStart ==
    /\ coreOp = [name |-> "assemble", pc |-> "called"]
    /\ coreOut' = Context(InstructionSize,
                          SliceLast(Numbered(coreIn.history), HistoryWindow),
                          coreIn.evidence, coreIn.question)
    /\ coreOp' = [coreOp EXCEPT !.pc = "trimming"]
    /\ UNCHANGED <<coreIn, chatVars, mvpVars, viewVars>>

\* Over budget with history left: the oldest turn is dropped
DropOldestTurn ==
    /\ coreOp = [name |-> "assemble", pc |-> "trimming"]
    /\ OverBudget(coreOut)
    /\ coreOut.history # <<>>
    /\ coreOut' = [coreOut EXCEPT !.history = Tail(@)]
    /\ UNCHANGED <<coreOp, coreIn, chatVars, mvpVars, viewVars>>

\* Over budget with no history left: the lowest-scoring hit is dropped
DropLowestHit ==
    /\ coreOp = [name |-> "assemble", pc |-> "trimming"]
    /\ OverBudget(coreOut)
    /\ coreOut.history = <<>>
    /\ coreOut.evidence # <<>>
    /\ coreOut' = [coreOut EXCEPT !.evidence = DropLowest(@)]
    /\ UNCHANGED <<coreOp, coreIn, chatVars, mvpVars, viewVars>>

\* The budget is met, or nothing is left that may be dropped
AssembleReturn ==
    /\ coreOp = [name |-> "assemble", pc |-> "trimming"]
    /\ ~OverBudget(coreOut) \/ (coreOut.history = <<>> /\ coreOut.evidence = <<>>)
    /\ coreOp' = [coreOp EXCEPT !.pc = "returned"]
    /\ UNCHANGED <<coreOut, coreIn, chatVars, mvpVars, viewVars>>

AssembleNext ==
    \/ AssembleStart
    \/ DropOldestTurn
    \/ DropLowestHit
    \/ AssembleReturn

\* The front ends idle and assemble called
AssembleInit == ChatIdle /\ MvpInit /\ ViewsIdle /\ AssembleCalled

\* One call of the Context Assembler
SpecAssemble == AssembleInit /\ [][AssembleNext]_vars

\* assemble has returned
AssembleReturned == coreOp = [name |-> "assemble", pc |-> "returned"]

\* assemble is at work
Assembling == coreOp.name = "assemble" /\ coreOp.pc \in {"trimming", "returned"}

\* The instruction and the question alone fit the budget
QuestionFits == InstructionSize + coreIn.question <= ContextBudget

\* s is the last Len(s) elements of t
IsSuffix(s, t) == Len(s) <= Len(t) /\ s = SubSeq(t, Len(t) - Len(s) + 1, Len(t))

\* s is the first Len(s) elements of t
IsPrefix(s, t) == Len(s) <= Len(t) /\ s = SubSeq(t, 1, Len(s))

-----------------------------------------------------------------------------
(* React application: how ProtocolSearch, AppealSearch and AppealAnalysis render
   the decision and the response / details text of a record *)

CardComponents == {"protocol", "appeal", "analysis"}

\* Bound: most records rendered at once
MaxShown == 2

\* The decision labels of the fixed domain, character by character, and one that
\* is not of the domain
Deferido == << "D", "e", "f", "e", "r", "i", "d", "o" >>

Indeferido == << "I", "n", "d", "e", "f", "e", "r", "i", "d", "o" >>

ParcialmenteDeferido ==
    << "P", "a", "r", "c", "i", "a", "l", "m", "e", "n", "t", "e", " " >> \o Deferido

NaoConhecimento ==
    << "N", "a", "o", " ", "c", "o", "n", "h", "e", "c", "i", "m", "e", "n", "t", "o" >>

PerdaDeObjeto == << "P", "e", "r", "d", "a", " ", "d", "e", " ", "o", "b", "j", "e", "t", "o" >>

Decisions == { Deferido, Indeferido, ParcialmenteDeferido, NaoConhecimento, PerdaDeObjeto }

OtherDecision == << "A", "c", "o", "l", "h", "i", "d", "o" >>

\* The response / details text of a record, around the two limits
FieldTexts ==
    { << Run("a", 1) >>, << Run("a", 300) >>, << Run("a", 301) >>,
      << Run("a", 299), Run(".", 3) >>, << Run("a", 500) >>,
      << Run("a", 300), Run("b", 201) >>, << Run("a", 499), Run(".", 2) >> }

\* The records a response brings: up to MaxShown, with distinct keys
ShownLists ==
    { l \in UNION { [1..n -> [key : {"k1", "k2", "k3"},
                              decision : Decisions \cup {OtherDecision},
                              text : FieldTexts]] : n \in 1..MaxShown } :
        /\ \A i \in DOMAIN l : l[i].key = <<"k1", "k2", "k3">>[i]
        /\ \A i \in DOMAIN l :
              i > 1 => /\ l[i].decision = Deferido
                       /\ l[i].text \in { << Run("a", 301) >>,
                                          << Run("a", 300), Run("b", 201) >> } }

\* String.prototype.includes on character sequences
includes(text, pattern) ==
    \E i \in 1..(Len(text) - Len(pattern) + 1) :
        SubSeq(text, i, i + Len(pattern) - 1) = pattern

\* String.prototype.substring(0, n) on run-length-encoded text
RECURSIVE substring(_, _)
substring(t, n) ==
    IF t = <<>> \/ n <= 0 THEN <<>>
    ELSE IF Head(t).n <= n THEN << Head(t) >> \o substring(Tail(t), n - Head(t).n)
    ELSE << Run(Head(t).ch, n) >>

\* Concatenation of run-length-encoded texts
Concat(a, b) ==
    IF a = <<>> THEN b
    ELSE IF b = <<>> THEN a
    ELSE IF a[Len(a)].ch = b[1].ch
         THEN SubSeq(a, 1, Len(a) - 1) \o << Run(b[1].ch, a[Len(a)].n + b[1].n) >> \o Tail(b)
         ELSE a \o b

\* The n-th character of a run-length-encoded text (1 <= n <= TextLen(t))
RECURSIVE CharAt(_, _)
CharAt(t, n) == IF n <= Head(t).n THEN Head(t).ch ELSE CharAt(Tail(t), n - Head(t).n)

\* The '...' of the template literals
Ellipsis == << Run(".", 3) >>

\* The maxLength each component passes (AppealAnalysis 300, the others 500)
maxLengthOf(component) == IF component = "analysis" THEN 300 ELSE 500

\* expandedResponses[appealId], undefined read as false
isExpanded(appealId) ==
    appealId \in DOMAIN expandedResponses /\ expandedResponses[appealId]

\* A plausible slip: the marker left out of the excerpt
renderExpandableTextNoMarker(text, appealId, maxLength) ==
    IF ~(TextLen(text) > maxLength) THEN [text |-> text, button |-> "none"]
    ELSE IF isExpanded(appealId) THEN [text |-> text, button |-> "Ver menos"]
    ELSE [text |-> substring(text, maxLength), button |-> "Ver mais"]

\* renderExpandableText: the text of the span and the label of the button
renderExpandableText(text, appealId, maxLength) ==
    IF ~(TextLen(text) > maxLength) THEN [text |-> text, button |-> "none"]
    ELSE IF isExpanded(appealId) THEN [text |-> text, button |-> "Ver menos"]
    ELSE [text |-> Concat(substring(text, maxLength), Ellipsis), button |-> "Ver mais"]

\* ProtocolSearch: the 'Detalhamento' paragraph
renderDetails(details) ==
    [text |-> IF TextLen(details) > 500 THEN Concat(substring(details, 500), Ellipsis)
              ELSE details,
     button |-> "none"]

\* What the mounted component renders of the text of record r
RenderedText(r) ==
    IF shownIn = "protocol" THEN renderDetails(r.text)
    ELSE renderExpandableText(r.text, r.key, maxLengthOf(shownIn))

\* getDecisionBadgeVariant of ProtocolSearch and of AppealSearch
getDecisionBadgeVariant(decision) ==
    IF decision = Deferido THEN "success"
    ELSE IF decision = Indeferido THEN "danger"
    ELSE IF decision = ParcialmenteDeferido THEN "warning"
    ELSE "default"

\* AppealAnalysis: the badge of a similar appeal and of a decision statistic
analysisBadgeVariant(decision) ==
    IF includes(decision, Deferido) THEN "success" ELSE "danger"

\* The variant of the decision badge the mounted component renders for record r
BadgeVariant(r) ==
    IF shownIn = "analysis" THEN analysisBadgeVariant(r.decision)
    ELSE getDecisionBadgeVariant(r.decision)

\* Navigation mounts component c: its state starts afresh
ComponentMounted(c) ==
    /\ c # shownIn
    /\ shownIn' = c
    /\ shown' = <<>>
    /\ expandedResponses' = <<>>
    /\ UNCHANGED <<dashVars, chatVars, mvpVars, coreVars>>

\* A response brings the records l to the mounted component (setResults and
\* setOriginalRequest / setOriginalAppeal; expandedResponses is not reset)
RecordsShown(l) ==
    /\ shownIn \in CardComponents
    /\ shown' = l
    /\ UNCHANGED <<shownIn, expandedResponses, dashVars, chatVars, mvpVars, coreVars>>

\* toggleResponseExpansion(appealId), from the button of a truncated text
toggleResponseExpansion(appealId) ==
    /\ shownIn \in {"appeal", "analysis"}
    /\ \E i \in DOMAIN shown :
          shown[i].key = appealId /\ RenderedText(shown[i]).button # "none"
    /\ expandedResponses' =
          [k \in DOMAIN expandedResponses \cup {appealId} |->
              IF k = appealId THEN ~isExpanded(appealId) ELSE expandedResponses[k]]
    /\ UNCHANGED <<shownIn, shown, dashVars, chatVars, mvpVars, coreVars>>

CardsNext ==
    \/ \E c \in CardComponents \cup {"dashboard"} : ComponentMounted(c)
    \/ \E l \in ShownLists : RecordsShown(l)
    \/ \E k \in {"k1", "k2", "k3"} : toggleResponseExpansion(k)

\* The React application rendering records
SpecCards == MvpLoaded /\ [][CardsNext]_vars

\* t is the first n characters of full followed by '...'
IsExcerpt(t, full, n) ==
    /\ TextLen(t) = n + 3
    /\ \A j \in 1..n : CharAt(t, j) = CharAt(full, j)
    /\ \A j \in (n + 1)..(n + 3) : CharAt(t, j) = "."

\* C22: a text no longer than the limit of its component is rendered unchanged;
\* a longer one is rendered either in full (expanded, 'Ver menos' offered) or as
\* its first limit characters followed by '...' ('Ver mais' offered where the
\* component can expand), whatever was toggled before.
C22_ExcerptIsMarked ==
    \A i \in DOMAIN shown :
        LET r == shown[i]
            out == RenderedText(r)
            limit == IF shownIn = "analysis" THEN 300 ELSE 500
            expandable == shownIn \in {"appeal", "analysis"}
        IN /\ TextLen(r.text) <= limit => (out.text = r.text /\ out.button = "none")
           /\ (TextLen(r.text) > limit /\ expandable /\ isExpanded(r.key))
                 => (out.text = r.text /\ out.button = "Ver menos")
           /\ (TextLen(r.text) > limit /\ ~(expandable /\ isExpanded(r.key)))
                 => /\ IsExcerpt(out.text, r.text, limit)
                    /\ out.button = (IF expandable THEN "Ver mais" ELSE "none")

\* C22 witness: AppealAnalysis renders two responses longer than 300 characters,
\* the first expanded and collapsed again (its excerpt ends the text's own dots
\* with the marker), the second expanded.
C22_Witness ==
    /\ shownIn = "analysis"
    /\ Len(shown) = 2
    /\ shown[1].text = << Run("a", 299), Run(".", 3) >>
    /\ "k1" \in DOMAIN expandedResponses /\ ~expandedResponses["k1"]
    /\ RenderedText(shown[1]) = [text |-> << Run("a", 299), Run(".", 4) >>, button |-> "Ver mais"]
    /\ isExpanded("k2")
    /\ RenderedText(shown[2]).button = "Ver menos"

\* C23 as stated: every decision badge rendered is success (green) for 'Deferido',
\* danger (red) for 'Indeferido', warning (yellow) for 'Parcialmente Deferido'
\* and default (grey) for any other decision.
C23_BadgeColours ==
    \A i \in DOMAIN shown :
        BadgeVariant(shown[i]) =
            (CASE shown[i].decision = Deferido -> "success"
               [] shown[i].decision = Indeferido -> "danger"
               [] shown[i].decision = ParcialmenteDeferido -> "warning"
               [] OTHER -> "default")

\* C23 witness: AppealAnalysis renders an appeal decided 'Parcialmente Deferido'
\* with the success badge.
C23_Witness ==
    /\ shownIn = "analysis"
    /\ Len(shown) >= 1
    /\ shown[1].decision = ParcialmenteDeferido
    /\ BadgeVariant(shown[1]) = "success"

-----------------------------------------------------------------------------
(* Dashboard *)

DashboardRequests == {"health", "info", "minuta"}

\* null, and the body of a response
NoData == [present |-> FALSE, status |-> "", qdrant_connection |-> "", available |-> FALSE]

\* Bodies of GET /health: the README documents status "healthy" with
\* qdrant_connection "ok"; "" stands for a missing or false field
HealthBodies ==
    { [present |-> TRUE, status |-> s, qdrant_connection |-> q, available |-> FALSE] :
        s \in {"healthy", "ok", "unhealthy"}, q \in {"ok", "error", ""} }

\* Bodies of GET /
InfoBodies ==
    { [present |-> TRUE, status |-> "", qdrant_connection |-> "", available |-> FALSE] }

\* Bodies of GET /minuta-status
MinutaBodies ==
    { [present |-> TRUE, status |-> "", qdrant_connection |-> "", available |-> a] :
        a \in BOOLEAN }

BodiesOf(name) ==
    CASE name = "health" -> HealthBodies
      [] name = "info" -> InfoBodies
      [] name = "minuta" -> MinutaBodies

\* A request of loadDashboardData: pending, or fulfilled with a body
Pending == [settled |-> FALSE, body |-> NoData]

Fulfilled(body) == [settled |-> TRUE, body |-> body]

\* loadDashboardData up to its await (the effect at mount, or 'Atualizar')
loadDashboardData ==
    /\ DOMAIN dashRequests = {}
    /\ dashLoading \/ dashToast # "none" \/ healthData.present
    /\ dashLoading' = TRUE
    /\ dashRequests' = [n \in DashboardRequests |-> Pending]
    /\ dashToast' = "none"
    /\ UNCHANGED <<healthData, appInfo, minutaStatus, cardVars, chatVars, mvpVars, coreVars>>

\* Request name is answered; Promise.all resolves with the last answer and the
\* three states are set
DashboardFulfilled(name, body) ==
    /\ name \in DOMAIN dashRequests
    /\ ~dashRequests[name].settled
    /\ LET after == [dashRequests EXCEPT ![name] = Fulfilled(body)]
       IN IF \A n \in DashboardRequests : after[n].settled
          THEN /\ healthData' = after["health"].body
               /\ appInfo' = after["info"].body
               /\ minutaStatus' = after["minuta"].body
               /\ dashLoading' = FALSE
               /\ dashRequests' = <<>>
          ELSE /\ dashRequests' = after
               /\ UNCHANGED <<healthData, appInfo, minutaStatus, dashLoading>>
    /\ UNCHANGED <<dashToast, cardVars, chatVars, mvpVars, coreVars>>

\* Request name fails: Promise.all rejects, the catch block raises the toast and
\* what the other requests bring is discarded
DashboardRejected(name) ==
    /\ name \in DOMAIN dashRequests
    /\ ~dashRequests[name].settled
    /\ dashToast' = "error"
    /\ dashLoading' = FALSE
    /\ dashRequests' = <<>>
    /\ UNCHANGED <<healthData, appInfo, minutaStatus, cardVars, chatVars, mvpVars, coreVars>>

\* The status badge of the header: healthData?.status === 'ok'
SystemBadge ==
    IF healthData.present /\ healthData.status = "ok" THEN "Sistema Online"
    ELSE "Sistema Offline"

\* The 'Base de Dados' card: healthData?.qdrant_connection, truthy or not
DatabaseText ==
    IF healthData.present /\ healthData.qdrant_connection # "" THEN "Conectado"
    ELSE "Desconectado"

DashboardNext ==
    \/ loadDashboardData
    \/ \E n \in DashboardRequests : \E b \in BodiesOf(n) : DashboardFulfilled(n, b)
    \/ \E n \in DashboardRequests : DashboardRejected(n)

\* The React application on its Dashboard
SpecDashboard == MvpLoaded /\ [][DashboardNext]_vars

\* C24 as stated: with the healthy response of the README received, the Dashboard
\* shows 'Sistema Online' and the database as connected.
C24_HealthyShownOnline ==
    (/\ ~dashLoading
     /\ healthData.present
     /\ healthData.status = "healthy"
     /\ healthData.qdrant_connection = "ok")
    => (SystemBadge = "Sistema Online" /\ DatabaseText = "Conectado")

\* C24 witness: the three requests were answered, /health with the documented
\* healthy body, and the Dashboard shows 'Sistema Offline' over a connected database.
C24_Witness ==
    /\ ~dashLoading
    /\ dashToast = "none"
    /\ healthData.present
    /\ healthData.status = "healthy"
    /\ healthData.qdrant_connection = "ok"
    /\ SystemBadge = "Sistema Offline"
    /\ DatabaseText = "Conectado"

-----------------------------------------------------------------------------
(* Chat widget: further properties *)

\* C25: whenever state.isLoading is false the typing indicator is hidden, no
\* typing timer is pending and the send button and message input are enabled;
\* every way a request ends (answer, no answer, error) leaves the widget so.
C25_IdleMeansReady ==
    /\ [](~isLoading => (~typingDisplay /\ ~typingTimeout /\ ~controlsDisabled))
    /\ [][(lastOutcome' # lastOutcome
           /\ lastOutcome'.kind \in {"answer", "noanswer", "error"})
          => (~isLoading' /\ ~typingDisplay' /\ ~typingTimeout' /\ ~controlsDisabled')]_chatVars

\* C25 witness: a request has failed before its typing timer fired, and the widget
\* is idle with the indicator hidden and no timer left.
C25_Witness ==
    /\ lastOutcome.kind = "error"
    /\ nfail = 1
    /\ ~isLoading
    /\ ~typingDisplay
    /\ ~typingTimeout
    /\ ~controlsDisabled

\* The most recent /chat request has failed and nothing was submitted since
LastRequestFailed == lastOutcome.kind \in {"noanswer", "error"}

\* state.history as it was before the most recent addToHistory
HistoryBefore == SliceLast(SubSeq(appendLog, 1, Len(appendLog) - 1), HistoryCap)

\* h is g with one turn appended: a user turn of submission req
IsUserTurnAppended(h, g, req) ==
    /\ Len(h) = Len(g) + 1
    /\ \A i \in 1..Len(g) : h[i] = g[i]
    /\ h[Len(h)].role = "user"
    /\ h[Len(h)].req = req

\* C26 as stated: after a failed request state.history is its value before the
\* submission with exactly one user turn appended.
C26_Original ==
    LastRequestFailed => IsUserTurnAppended(history, HistoryBefore, lastOutcome.req)

\* C26 amended: after a failed request state.history is its value before the
\* submission, less its oldest turn if it already held 2 * HISTORY_LIMIT turns,
\* with one user turn appended and no assistant turn of that submission; the
\* failure itself leaves state.history as it is, and the next request carries the
\* unanswered user turn right before its own.
C26_FailureKeepsUserTurn ==
    /\ [](LastRequestFailed =>
            /\ IsUserTurnAppended(history,
                                  IF Len(HistoryBefore) = 2 * HISTORY_LIMIT
                                  THEN Tail(HistoryBefore) ELSE HistoryBefore,
                                  lastOutcome.req)
            /\ \A i \in DOMAIN history :
                  history[i].req = lastOutcome.req => history[i].role = "user")
    /\ [][(lastOutcome' # lastOutcome /\ lastOutcome'.kind \in {"noanswer", "error"})
            => history' = history]_chatVars
    /\ [][(LastRequestFailed /\ nreq' = nreq + 1)
            => \A r \in inFlight' \ inFlight :
                  LET n == Len(r.history)
                  IN /\ n >= 2
                     /\ r.history[n].req = r.req
                     /\ r.history[n - 1].role = "user"
                     /\ r.history[n - 1].req = lastOutcome.req]_chatVars

\* C26 witness: a request is in flight whose history carries, right before its
\* own user turn, the unanswered user turn of the failed request before it, and
\* state.history is full.
C26_Witness ==
    /\ nfail = 1
    /\ Len(history) = 2 * HISTORY_LIMIT
    /\ \E r \in inFlight :
          LET n == Len(r.history)
          IN /\ n >= 2
             /\ r.history[n].role = "user"
             /\ r.history[n - 1].role = "user"
             /\ r.history[n - 1].req = r.req - 1

\* What loadHistory of a session started now would leave in state.history
RestoredHistory ==
    IF storage.present /\ storage.text # <<>>
    THEN LET p == JSONparse(storage.text) IN IF p.ok THEN p.value ELSE <<>>
    ELSE <<>>

\* C27: after every addToHistory whose save succeeds the stored value parses to
\* exactly the turns of state.history, at most 2 * HISTORY_LIMIT of them, which
\* is what loadHistory of a new session restores; and when the stored value
\* cannot be parsed, loadHistory leaves an empty history and init goes on.
C27_StorageMirrorsHistory ==
    /\ [][(appendLog' # appendLog /\ chatPc = "ready" /\ nsavefail' = nsavefail)
            => /\ storage'.present
               /\ JSONparse(storage'.text).ok
               /\ JSONparse(storage'.text).value = TurnsOf(history')
               /\ Len(JSONparse(storage'.text).value) <= 2 * HISTORY_LIMIT]_chatVars
    /\ []((chatPc = "ready" /\ nreq > 0 /\ nsavefail = 0)
            => RestoredHistory = TurnsOf(history))
    /\ [][(chatPc = "start" /\ chatPc' # chatPc)
            => /\ TurnsOf(history') = RestoredHistory
               /\ (storage.present /\ ~JSONparse(storage.text).ok)
                     => (history' = <<>> /\ chatPc' = "stats")]_chatVars

\* C27 witness: a save failed, a later one succeeded, and the stored value parses
\* to the 20 turns of state.history.
C27_Witness ==
    /\ nsavefail = 1
    /\ Len(history) = 2 * HISTORY_LIMIT
    /\ storage.present
    /\ JSONparse(storage.text).ok
    /\ JSONparse(storage.text).value = TurnsOf(history)
    /\ history[Len(history)].req = nreq
    /\ nreq >= 2

\* The /stats request settles with one of its outcomes, after which init() resumes
InitProgress == WF_vars(\E o \in StatsOutcomes : StatsSettled(o))

\* The chat widget with its initialization running to the end
SpecChatInit == ChatLoaded /\ [][ChatLiveNext]_vars /\ InitProgress

-----------------------------------------------------------------------------
(* ProtocolSearch / AppealSearch: what the view shows *)

\* 'Estado Vazio': the 'Nenhuma busca realizada' card
PlaceholderShown == results = <<>> /\ ~loading /\ error.kind = "none"

\* 'Estado de Erro': the error card
ErrorCardShown == error.kind # "none" /\ ~loading

\* The card of the original record
OriginalShown == original.present

\* The card of the similar records
ResultsShown == results # <<>>

\* The last search has succeeded and the view was not reset since
SearchSucceeded == lastEvent.kind = "settle" /\ lastEvent.outcome = "ok"

\* C29 as stated: whenever no request is loading, a search view shows exactly one
\* of the placeholder (only if no search has succeeded since the last reset), the
\* error card (with no original record and no results) and the success cards
\* (original record and/or results, with no error and no placeholder).
C29_ExactlyOneViewState ==
    (currentPage \in SearchPages /\ ~loading) =>
        LET success == OriginalShown \/ ResultsShown
        IN /\ PlaceholderShown \/ ErrorCardShown \/ success
           /\ ~(PlaceholderShown /\ ErrorCardShown)
           /\ ~(PlaceholderShown /\ success)
           /\ ~(ErrorCardShown /\ success)
           /\ PlaceholderShown => ~SearchSucceeded

\* C29 witness: a search has succeeded with an original record and no similar
\* record, and the view shows the record together with the placeholder.
C29_Witness ==
    /\ currentPage \in SearchPages
    /\ ~loading
    /\ SearchSucceeded
    /\ OriginalShown
    /\ ~ResultsShown
    /\ PlaceholderShown
    /\ ~ErrorCardShown

-----------------------------------------------------------------------------
(* Chat widget: long messages *)

\* CONFIG.MAX_MESSAGE_LENGTH
MAX_MESSAGE_LENGTH == 500

\* Messages at and beyond the configured maximum length
LongMessages ==
    { << Run("a", MAX_MESSAGE_LENGTH) >>, << Run("a", MAX_MESSAGE_LENGTH + 1) >> }

\* The steps of the chat widget when long messages are typed as well
ChatLongNext ==
    \/ ChatLiveNext
    \/ \E t \in LongMessages : TypeMessage(t)

SpecChatLong == ChatLoaded /\ [][ChatLongNext]_vars

\* C30 as stated: no message longer than CONFIG.MAX_MESSAGE_LENGTH is sent to
\* /chat or appended to the history.
C30_MessageLengthEnforced ==
    /\ \A r \in inFlight : TextLen(r.message) <= MAX_MESSAGE_LENGTH
    /\ \A i \in DOMAIN history : TextLen(history[i].content) <= MAX_MESSAGE_LENGTH

\* C30 witness: a message of MAX_MESSAGE_LENGTH + 1 characters is in flight to
\* /chat and is the last turn of state.history.
C30_Witness ==
    /\ \E r \in inFlight : TextLen(r.message) = MAX_MESSAGE_LENGTH + 1
    /\ Len(history) > 0
    /\ history[Len(history)].role = "user"
    /\ TextLen(history[Len(history)].content) = MAX_MESSAGE_LENGTH + 1
    /\ storage.present

=============================================================================
